---- MODULE Spec2Model ----
(***************************************************************************)
(* Tiered price-model store of the car scraper: the trainer               *)
(* (analysis/train_price_models_3.py), the full retrain                   *)
(* (analysis/retrain_models.py) and the prediction resolver               *)
(* (analysis/predict_price.py), over the price_models table               *)
(* (db/models.py) and the make/model normaliser (utils/normalizer.py).    *)
(*                                                                         *)
(* Strings are sequences of one-character strings, so that the            *)
(* normaliser's character-level work (lower-casing, character classes,    *)
(* prefix tests, token splitting) is computed rather than assumed.        *)
(* Python's None is NULL for strings and NoneInt for integers.            *)
(***************************************************************************)
EXTENDS Integers, Sequences, FiniteSets, TLC

\* ------------------------------------------------------------------------
\* Strings
\* ------------------------------------------------------------------------

NULL == <<"None">>
NoneInt == -9999

SP == " "

UpperChars == <<"A","B","C","D","E","F","G","H","I","J","K","L","M",
                "N","O","P","Q","R","S","T","U","V","W","X","Y","Z">>
LowerChars == <<"a","b","c","d","e","f","g","h","i","j","k","l","m",
                "n","o","p","q","r","s","t","u","v","w","x","y","z">>

Letters == {LowerChars[i] : i \in 1..26}
Digits == {"0","1","2","3","4","5","6","7","8","9"}

\* str.lower() on one character
LowerChar(c) ==
    IF \E i \in 1..26 : UpperChars[i] = c
    THEN LowerChars[CHOOSE i \in 1..26 : UpperChars[i] = c]
    ELSE c

\* _nfkc_lower
_nfkc_lower(s) == [i \in 1..Len(s) |-> LowerChar(s[i])]

\* re.sub(r"\s+", " ", s).strip()
RECURSIVE CollapseFrom(_, _, _)
CollapseFrom(s, i, acc) ==
    IF i > Len(s) THEN acc
    ELSE IF s[i] = SP
         THEN IF acc = <<>> \/ acc[Len(acc)] = SP
              THEN CollapseFrom(s, i + 1, acc)
              ELSE CollapseFrom(s, i + 1, Append(acc, SP))
         ELSE CollapseFrom(s, i + 1, Append(acc, s[i]))

RStrip(s) == IF s # <<>> /\ s[Len(s)] = SP THEN SubSeq(s, 1, Len(s) - 1) ELSE s

_strip_weird_spaces(s) == RStrip(CollapseFrom(s, 1, <<>>))

\* s.startswith(p)
StartsWith(s, p) == Len(p) <= Len(s) /\ SubSeq(s, 1, Len(p)) = p

\* s.split()
RECURSIVE SplitFrom(_, _, _, _)
SplitFrom(s, i, cur, acc) ==
    IF i > Len(s) THEN (IF cur = <<>> THEN acc ELSE Append(acc, cur))
    ELSE IF s[i] = SP
         THEN SplitFrom(s, i + 1, <<>>, IF cur = <<>> THEN acc ELSE Append(acc, cur))
         ELSE SplitFrom(s, i + 1, Append(cur, s[i]), acc)

Split(s) == SplitFrom(s, 1, <<>>, <<>>)

\* ------------------------------------------------------------------------
\* utils/normalizer.py
\* ------------------------------------------------------------------------

s_kia       == <<"k","i","a">>
s_rio       == <<"r","i","o">>
s_tesla     == <<"t","e","s","l","a">>
s_model     == <<"m","o","d","e","l">>
s_model_s   == <<"m","o","d","e","l"," ","s">>
s_models    == <<"m","o","d","e","l","s">>
s_merc      == <<"m","e","r","c">>
s_mercedes  == <<"m","e","r","c","e","d","e","s","-","b","e","n","z">>
s_e         == <<"e">>
s_eclass    == <<"e","-","c","l","a","s","s">>
s_etron     == <<"e","t","r","o","n">>
s_e_tron    == <<"e","-","t","r","o","n">>
s_vw        == <<"v","w">>
s_volkswagen == <<"v","o","l","k","s","w","a","g","e","n">>
s_sport     == <<"s","p","o","r","t">>
s_gti       == <<"g","t","i">>
s_amg       == <<"a","m","g">>

\* ALIASES, in the dictionary's order, restricted to the entries whose key
\* the vocabulary of the model can meet.
ALIASES == << <<s_vw, s_volkswagen>>,
              <<s_merc, s_mercedes>>,
              <<s_model_s, s_models>>,
              <<s_e_tron, s_etron>> >>

\* ALIASES.get(m, m)
AliasGet(m) ==
    LET hit == {p \in {ALIASES[i] : i \in 1..Len(ALIASES)} : p[1] = m}
    IN  IF hit = {} THEN m ELSE (CHOOSE p \in hit : TRUE)[2]

\* DROP_TOKENS without the token "e"
DROP_TOKENS_keeping_e == {s_sport, s_gti, s_amg}

\* DROP_TOKENS, restricted likewise
DROP_TOKENS == {s_sport, s_gti, s_amg, s_e}

MakeClass  == Letters \cup Digits \cup {"-", SP}
ModelClass == Letters \cup Digits \cup {"-", "/", SP}

\* "m or None"
OrNone(m) == IF m = <<>> THEN NULL ELSE m

\* re.sub(r"[^a-z0-9\-\s/]", " ", m)
BlankOutside(m, class) == [i \in 1..Len(m) |-> IF m[i] \in class THEN m[i] ELSE SP]

normalize_make(make) ==
    IF make = NULL \/ make = <<>> THEN NULL
    ELSE OrNone(AliasGet(SelectSeq(_nfkc_lower(_strip_weird_spaces(make)),
                                   LAMBDA c : c \in MakeClass)))

normalize_model(model) ==
    IF model = NULL \/ model = <<>> THEN NULL
    ELSE OrNone(_strip_weird_spaces(
                    BlankOutside(_nfkc_lower(_strip_weird_spaces(model)), ModelClass)))

AllDigits(t) == t # <<>> /\ \A i \in 1..Len(t) : t[i] \in Digits

\* re.fullmatch(r"[0-9]{1,2}[a-z]", t)
ShortCode(t) ==
    /\ Len(t) \in {2, 3}
    /\ t[Len(t)] \in Letters
    /\ \A i \in 1..(Len(t) - 1) : t[i] \in Digits

\* model_base after the token filter: the tesla forms, else the first token
BaseOfTokens(tokens) ==
    IF tokens = <<>> THEN NULL
    ELSE IF Len(tokens) > 1 /\ tokens[1] = s_model
            /\ tokens[2] \in {<<"s">>, <<"3">>, <<"x">>, <<"y">>}
    THEN s_model \o tokens[2]
    ELSE IF Len(tokens) = 1 /\ tokens[1] = s_model THEN NULL
    ELSE tokens[1]

\* model_base of a normalized model m: the first alias that m starts with,
\* else the base of the tokens that are kept
BaseOfNormalized(m, aliases) ==
    IF m = NULL THEN NULL
    ELSE IF \E i \in 1..Len(aliases) : StartsWith(m, aliases[i][1])
    THEN aliases[CHOOSE i \in 1..Len(aliases) :
                    /\ StartsWith(m, aliases[i][1])
                    /\ \A j \in 1..(i - 1) : ~StartsWith(m, aliases[j][1])][2]
    ELSE BaseOfTokens(SelectSeq(Split(m),
             LAMBDA t : ~(t \in DROP_TOKENS \/ AllDigits(t) \/ ShortCode(t))))

model_base(model) == BaseOfNormalized(normalize_model(model), ALIASES)

\* returns (nm, mbase); the middle component nmod is used by no caller
normalize_make_model(make, model) ==
    <<normalize_make(make), model_base(normalize_model(model))>>

\* ------------------------------------------------------------------------
\* Raw make and model texts of listings and requests
\* ------------------------------------------------------------------------

r_Kia      == <<"K","i","a">>
r_RioSport == <<"R","i","o"," ","S","p","o","r","t">>
r_EClass   == <<"E","-","C","l","a","s","s"," ","A","M","G">>
r_E220     == <<"E"," ","2","2","0">>
r_Saab     == <<"S","a","a","b">>
r_93       == <<"9","-","3">>
r_ModelQ   == <<"M","o","d","e","l"," ","Q">>

RequestMakes  == {NULL, r_Kia, s_merc, r_Saab}
RequestModels == {NULL, r_RioSport, r_EClass, r_E220}

\* normalize_make_model on the request texts, tabulated (@@ makes the
\* function an explicit table, so that it is evaluated once)
NormalizedRequests ==
    [mm \in RequestMakes \X RequestModels |-> normalize_make_model(mm[1], mm[2])] @@ <<>>

Normalized(make, model) == NormalizedRequests[<<make, model>>]

\* ------------------------------------------------------------------------
\* Numbers
\* ------------------------------------------------------------------------

Max(a, b) == IF a >= b THEN a ELSE b

\* floor division and remainder on any integer numerator, positive divisor
FloorDiv(a, b) == IF a >= 0 THEN a \div b ELSE -((-a + b - 1) \div b)

\* Python round(x) of the rational x = num/den (den > 0): nearest integer,
\* ties to the even one; int() of an integral float changes nothing
RoundHalfEven(num, den) ==
    LET q == FloorDiv(num, den)
        r == num - q * den
    IN  IF 2 * r < den THEN q
        ELSE IF 2 * r > den THEN q + 1
        ELSE IF q % 2 = 0 THEN q ELSE q + 1

\* Fixed point: log_km is carried as the integer round(100 * ln(1 + km)),
\* given here on the odometer readings the model uses (np.log1p)
Log1pTable ==
    [km \in {0, 1, 5000, 10000, 20000, 50000, 100000, 105000, 200000} |->
        CASE km = 0 -> 0
          [] km = 1 -> 69
          [] km = 5000 -> 852
          [] km = 10000 -> 921
          [] km = 20000 -> 990
          [] km = 50000 -> 1082
          [] km = 100000 -> 1151
          [] km = 105000 -> 1156
          [] km = 200000 -> 1221]

log1p(km) == Log1pTable[km]

\* ------------------------------------------------------------------------
\* State
\* ------------------------------------------------------------------------

VARIABLES
    price_models,   \* committed rows of the price_models table
    txDeleted,      \* trainer session: ids of committed rows it has deleted
    txInserted,     \* trainer session: rows it has added, not yet committed
    pc,             \* trainer position
    inRetrain,      \* the run in progress was started by retrain_all
    dataset,        \* the listings table the run loaded (a name of ListingsOf)
    jobIdx,         \* index into jobs of the bucket being trained
    pending,        \* row built by upsert_model, after its delete, before its add
    updated,        \* counters of train_and_store
    skipped,
    clock,          \* number of runs started; trained_at of the rows of a run
    seed,           \* which representative outcome the fits of the run have
    before,         \* history: price_models when train_and_store last began
    beforeClear,    \* history: price_models when retrain_all last began
    lastRun,        \* history: how the last finished operation ended, and
                    \* where it was when it crashed
    written,        \* history: bucket keys upserted by the run in progress / last run
    request,        \* last prediction request
    result,         \* what predict_price did with it
    table,          \* routing alone: the listings table routed
    mins,           \* routing alone: the three min_samples_* arguments
    routed,         \* routing alone: the dictionaries and the trainer calls
    cleaning,       \* clean_rows alone: its argument and what it returned
    activity,       \* one listing and the activity checkers' sessions
    irls,           \* robust_ridge: the weights of the round it is in
    cli,            \* a second trainer, run from the command line: its session
    deal,           \* update_daily_deals: the listing looked up and the rows picked
    process         \* the scheduler's process: calendar year, CURRENT_YEAR, its last job

vars == <<price_models, txDeleted, txInserted, pc, inRetrain, dataset, jobIdx,
          pending, updated, skipped, clock, seed, before, beforeClear, lastRun,
          written, request, result, table, mins, routed,
          cleaning,
          activity,
          irls,
          cli,
          deal,
          process>>

trainVars == <<txDeleted, txInserted, pc, inRetrain, dataset, jobIdx, pending,
               updated, skipped, clock, seed, before, beforeClear, lastRun, written>>

routeVars == <<table, mins, routed>>

\* the state of the parts of the program that the trainer and the resolver
\* do not touch
auxVars == <<cleaning, activity, irls, cli, deal, process>>
except_cleaning == <<activity, irls, cli, deal, process>>
except_activity == <<cleaning, irls, cli, deal, process>>
except_irls == <<cleaning, activity, cli, deal, process>>
except_cli == <<cleaning, activity, irls, deal, process>>
except_deal == <<cleaning, activity, irls, cli, process>>
except_process == <<cleaning, activity, irls, cli, deal>>

\* ------------------------------------------------------------------------
\* db/models.py: PriceModel
\* ------------------------------------------------------------------------

Tiers == {"model_year", "model", "make", "global"}

\* the unique key of price_models_unique
KeyOf(pm) == <<pm.tier, pm.make_norm, pm.model_base, pm.year>>

PriceModel(id, tier, make_norm, model_base_s, year, coef_json, n, r2, rmse, trained_at) ==
    [id |-> id, tier |-> tier, make_norm |-> make_norm, model_base |-> model_base_s,
     year |-> year, coef_json |-> coef_json, n_samples |-> n, r2 |-> r2,
     rmse |-> rmse, trained_at |-> trained_at]

\* ------------------------------------------------------------------------
\* analysis/predict_price.py
\* ------------------------------------------------------------------------

CURRENT_YEAR == 2025

\* _load_bucket: the rows it may return (first row by trained_at descending;
\* rows with equal trained_at come in an order the database chooses), the
\* empty set standing for None
_load_bucket(rows, tier, make_norm, model_base_s) ==
    LET q == {pm \in rows : /\ pm.tier = tier
                            /\ pm.make_norm = make_norm
                            /\ pm.model_base = model_base_s}
    IN  {pm \in q : \A o \in q : o.trained_at <= pm.trained_at}

BucketKey(tier, pm) ==
    <<tier,
      IF pm.make_norm = NULL THEN <<"-">> ELSE pm.make_norm,
      IF pm.model_base = NULL THEN <<"-">> ELSE pm.model_base>>

\* the tiers of _best_bucket with the make tier tried before the model tier
TryTiers_make_first(rows, nmb) ==
    LET nm == nmb[1]
        mb == nmb[2]
        r_model  == IF nm # NULL /\ mb # NULL
                    THEN _load_bucket(rows, "model", nm, mb) ELSE {}
        r_make   == IF nm # NULL THEN _load_bucket(rows, "make", nm, NULL) ELSE {}
        r_global == _load_bucket(rows, "global", NULL, NULL)
    IN  IF r_make # {} THEN {[pm |-> <<pm>>, tier |-> "make"] : pm \in r_make}
        ELSE IF r_model # {} THEN {[pm |-> <<pm>>, tier |-> "model"] : pm \in r_model}
        ELSE IF r_global # {} THEN {[pm |-> <<pm>>, tier |-> "global"] : pm \in r_global}
        ELSE {[pm |-> <<>>, tier |-> "none"]}

\* _best_bucket after normalize_make_model gave nmb = (nm, mb): the set of
\* (row, tier_used) it may return, the row as a one-element sequence; the
\* empty sequence with tier "none" when no tier has a row
TryTiers(rows, nmb) ==
    LET nm == nmb[1]
        mb == nmb[2]
        r_model  == IF nm # NULL /\ mb # NULL
                    THEN _load_bucket(rows, "model", nm, mb) ELSE {}
        r_make   == IF nm # NULL THEN _load_bucket(rows, "make", nm, NULL) ELSE {}
        r_global == _load_bucket(rows, "global", NULL, NULL)
    IN  IF r_model # {} THEN {[pm |-> <<pm>>, tier |-> "model"] : pm \in r_model}
        ELSE IF r_make # {} THEN {[pm |-> <<pm>>, tier |-> "make"] : pm \in r_make}
        ELSE IF r_global # {} THEN {[pm |-> <<pm>>, tier |-> "global"] : pm \in r_global}
        ELSE {[pm |-> <<>>, tier |-> "none"]}

_best_bucket(rows, make, model) == TryTiers(rows, Normalized(make, model))

\* _features: age and 100 * logkm; int(None) raises TypeError
FeaturesRaise(year, kilometers) == year = NoneInt \/ kilometers = NoneInt

Age(year) == Max(0, CURRENT_YEAR - year)
LogKm(kilometers) == log1p(Max(0, kilometers))

\* _predict_from_coefs, times 100
_predict_from_coefs(coefs, year, kilometers) ==
    LET age   == Age(year)
        logkm == LogKm(kilometers)
    IN  100 * coefs.intercept
        + 100 * coefs.beta_age * age
        + coefs.beta_logkm * logkm
        + coefs.beta_age_logkm * age * logkm

\* int(round(x)), the floor at 0 left out
FloorRound_unfloored(x100) == RoundHalfEven(x100, 100)

\* int(round(max(0, x))) for x given times 100
FloorRound(x100) == RoundHalfEven(Max(0, x100), 100)

RAISED == [raised |-> TRUE, predicted_price |-> NoneInt, tier_used |-> "raised",
           bucket |-> NULL, rmse |-> NoneInt, band |-> NULL, pm |-> <<>>]

\* predict_price computing the features before it looks at what was picked
PredictWith_features_first(picked, year, kilometers) ==
    IF FeaturesRaise(year, kilometers) THEN RAISED
    ELSE IF picked.pm = <<>>
    THEN [raised |-> FALSE, predicted_price |-> NoneInt, tier_used |-> "none",
          bucket |-> NULL, rmse |-> NoneInt, band |-> NULL, pm |-> <<>>]
    ELSE LET pm   == picked.pm[1]
             rmse == pm.rmse
             pred == _predict_from_coefs(pm.coef_json, year, kilometers)
         IN  [raised |-> FALSE,
              predicted_price |-> FloorRound(pred),
              tier_used |-> picked.tier,
              bucket |-> BucketKey(picked.tier, pm),
              rmse |-> rmse,
              band |-> <<FloorRound(pred - 100 * rmse), FloorRound(pred + 100 * rmse)>>,
              pm |-> <<pm>>]

\* predict_price for one choice of _best_bucket; pm is the row used (not
\* part of the returned dictionary)
PredictWith(picked, year, kilometers) ==
    IF picked.pm = <<>>
    THEN [raised |-> FALSE, predicted_price |-> NoneInt, tier_used |-> "none",
          bucket |-> NULL, rmse |-> NoneInt, band |-> NULL, pm |-> <<>>]
    ELSE IF FeaturesRaise(year, kilometers) THEN RAISED
    ELSE LET pm   == picked.pm[1]
             rmse == pm.rmse
             pred == _predict_from_coefs(pm.coef_json, year, kilometers)
         IN  [raised |-> FALSE,
              predicted_price |-> FloorRound(pred),
              tier_used |-> picked.tier,
              bucket |-> BucketKey(picked.tier, pm),
              rmse |-> rmse,
              band |-> <<FloorRound(pred - 100 * rmse), FloorRound(pred + 100 * rmse)>>,
              pm |-> <<pm>>]

predict_price(rows, make, model, year, kilometers) ==
    {PredictWith(picked, year, kilometers) : picked \in _best_bucket(rows, make, model)}

\* ------------------------------------------------------------------------
\* analysis/train_price_models_3.py: cleaning and design
\* ------------------------------------------------------------------------

MIN_SAMPLES_MODEL == 5
MIN_SAMPLES_MAKE == 5
MIN_SAMPLES_MODEL_YEAR == 12

\* the literal 8 of train_for_group_pooled
MIN_CLEAN_POOLED == 8

\* CarListing, the columns the trainer reads
CarListing(make, model, year, kilometers, price) ==
    [make |-> make, model |-> model, year |-> year,
     kilometers |-> kilometers, price |-> price]

Range(f) == {f[i] : i \in DOMAIN f}

\* the k-th smallest (k from 0) of the values of a non-empty sequence
KthSmallest(vals, k) ==
    CHOOSE v \in Range(vals) :
        /\ Cardinality({i \in DOMAIN vals : vals[i] < v}) <= k
        /\ Cardinality({i \in DOMAIN vals : vals[i] <= v}) > k

\* 100 * np.percentile(vals, q), linear interpolation between order statistics
Percentile100(vals, q) ==
    LET n   == Len(vals)
        pos == q * (n - 1)
        lo  == pos \div 100
        fr  == pos % 100
        a   == KthSmallest(vals, lo)
        b   == IF fr = 0 THEN a ELSE KthSmallest(vals, lo + 1)
    IN  100 * a + fr * (b - a)

TrimBy(rows, vals) ==
    LET q1 == Percentile100(vals, 5)
        q3 == Percentile100(vals, 95)
        keep == {i \in DOMAIN rows : q1 <= 100 * vals[i] /\ 100 * vals[i] <= q3}
    IN  SelectSeq([i \in DOMAIN rows |-> [r |-> rows[i], k |-> i \in keep]],
                  LAMBDA x : x.k)

Unwrap(xs) == [i \in DOMAIN xs |-> xs[i].r]

\* one percentile trim of clean_rows, applied when at least 5 rows are left
TrimColumn(rows, vals) ==
    IF Len(rows) < 5 THEN rows ELSE Unwrap(TrimBy(rows, vals))

TrimPrice(rows) == TrimColumn(rows, [i \in DOMAIN rows |-> rows[i].price])

TrimKilometers(rows) == TrimColumn(rows, [i \in DOMAIN rows |-> rows[i].kilometers])

\* clean_rows in a process whose module holds current_year as CURRENT_YEAR
clean_rows_in(rows, current_year) ==
    LET r1 == SelectSeq(rows, LAMBDA r : /\ r.price # NoneInt /\ r.price # 0
                                         /\ r.year # NoneInt /\ r.year # 0
                                         /\ r.kilometers # NoneInt)
        r2 == SelectSeq(r1, LAMBDA r : /\ 1990 <= r.year /\ r.year <= current_year
                                         /\ r.kilometers >= 0 /\ r.price > 0)
    IN  TrimKilometers(TrimPrice(r2))

clean_rows(rows) == clean_rows_in(rows, CURRENT_YEAR)

RECURSIVE SumSeq(_)
SumSeq(xs) == IF xs = <<>> THEN 0 ELSE xs[1] + SumSeq(Tail(xs))

\* n^2 * variance of xs (np.std is the population deviation):
\* std(xs) >= t  iff  NVar(xs) >= n^2 * t^2
\* (computed on the differences to the first value, which leaves it unchanged)
NVar(xs) ==
    LET d == [i \in DOMAIN xs |-> xs[i] - xs[1]]
    IN  Len(d) * SumSeq([i \in DOMAIN d |-> d[i] * d[i]]) - SumSeq(d) * SumSeq(d)

\* np.std(ages) >= MIN_AGE_STD (0.25)
AgeStdOk(rows) ==
    16 * NVar([i \in DOMAIN rows |-> CURRENT_YEAR - rows[i].year]) >= Len(rows) * Len(rows)

\* np.std(logkm) >= MIN_LOGKM_STD (0.10), MIN_LOGKM_STD_YR (0.10); logkm times 100
LogKmStdOk(rows) ==
    NVar([i \in DOMAIN rows |-> log1p(rows[i].kilometers)]) >= Len(rows) * Len(rows) * 10 * 10

\* ------------------------------------------------------------------------
\* analysis/train_price_models_3.py: the fit and the upsert
\* ------------------------------------------------------------------------

\* robust_ridge solves a weighted ridge regression in floating point, a
\* deterministic function of the rows and of the time of the run (through the
\* recency weights). Its result is represented by one of FitVariants
\* outcomes for a design of p columns, (coef, r2 in percent, rmse), the
\* outcome being chosen once per run.
FitVariants == {1, 2}

\* a float that is not finite (nan, inf, -inf), among the integers that stand
\* for the finite ones
NonFinite == -8888

\* robust_ridge returning, for the second variant, the non-finite values
\* that a solve over a non-finite product would give, instead of raising
robust_ridge_nonfinite(p, v) ==
    IF v = 1
    THEN [coef |-> SubSeq(<<30, -2, -1, 1>>, 1, p), r2 |-> 80, rmse |-> 10]
    ELSE [coef |-> [i \in 1..p |-> NonFinite], r2 |-> NonFinite, rmse |-> NonFinite]

robust_ridge(p, v) ==
    IF v = 1
    THEN [coef |-> SubSeq(<<30, -2, -1, 1>>, 1, p), r2 |-> 80, rmse |-> 10]
    ELSE [coef |-> SubSeq(<<-5, 1, 2, -1>>, 1, p), r2 |-> 0, rmse |-> 0]

\* coef_json filled in the order of the coefficient vector
coef_json_positional(coef) ==
    [intercept      |-> coef[1],
     beta_age       |-> IF Len(coef) > 1 THEN coef[2] ELSE 0,
     beta_logkm     |-> IF Len(coef) > 2 THEN coef[3] ELSE 0,
     beta_age_logkm |-> IF Len(coef) > 3 THEN coef[4] ELSE 0]

\* upsert_model: the coef_json dictionary built from the coefficient vector
coef_json(coef) ==
    [intercept      |-> coef[1],
     beta_age       |-> IF Len(coef) > 2 THEN coef[2] ELSE 0,
     beta_logkm     |-> IF Len(coef) > 2 THEN coef[3] ELSE coef[2],
     beta_age_logkm |-> IF Len(coef) > 3 THEN coef[4] ELSE 0]

\* train_for_group_pooled fitting the full design whatever the spreads
PooledGate_always_full(c, min_rows) ==
    IF Len(c) < min_rows
    THEN [ok |-> FALSE, reason |-> "too_few_after_trim", n |-> Len(c), design |-> "none"]
    ELSE [ok |-> TRUE, reason |-> "", n |-> Len(c), design |-> "full"]

\* train_for_group_pooled on the cleaned rows c: the gate on their number,
\* and the design chosen from the spread of age and of log-kilometers
PooledGate(c, min_rows) ==
    IF Len(c) < min_rows
    THEN [ok |-> FALSE, reason |-> "too_few_after_trim", n |-> Len(c), design |-> "none"]
    ELSE [ok |-> TRUE, reason |-> "", n |-> Len(c),
          design |-> IF AgeStdOk(c) /\ LogKmStdOk(c) THEN "full"
                     ELSE IF LogKmStdOk(c) THEN "logkm"
                     ELSE IF AgeStdOk(c) THEN "age"
                     ELSE "intercept"]

\* train_for_group_pooled gating on the routing minimum instead of 8
PooledPlan_low_gate(rows) == PooledGate(clean_rows(rows), MIN_SAMPLES_MODEL)

\* train_for_group_pooled up to the fit: the gate, and the design chosen;
\* map_to_full places the p fitted coefficients in the 4-vector
PooledPlan(rows) == PooledGate(clean_rows(rows), MIN_CLEAN_POOLED)

DesignColumns(design) ==
    CASE design = "full" -> 4
      [] design = "logkm" -> 2
      [] design = "age" -> 2
      [] design = "intercept" -> 1
      [] design = "single_year" -> 2

\* map_to_full with the reduced designs placing their slope in the other slot
map_to_full_slopes_swapped(design, c) ==
    CASE design = "full" -> <<c[1], c[2], c[3], c[4]>>
      [] design = "logkm" -> <<c[1], c[2], 0, 0>>
      [] design = "age" -> <<c[1], 0, c[2], 0>>
      [] design = "intercept" -> <<c[1], 0, 0, 0>>
      [] design = "single_year" -> c

map_to_full(design, c) ==
    CASE design = "full" -> <<c[1], c[2], c[3], c[4]>>
      [] design = "logkm" -> <<c[1], 0, c[2], 0>>
      [] design = "age" -> <<c[1], c[2], 0, 0>>
      [] design = "intercept" -> <<c[1], 0, 0, 0>>
      [] design = "single_year" -> c

\* train_for_group_single_year on the cleaned rows c
SingleYearGate(c) ==
    IF Len(c) < MIN_SAMPLES_MODEL_YEAR
    THEN [ok |-> FALSE, reason |-> "too_few_year_rows", n |-> Len(c), design |-> "none"]
    ELSE IF ~LogKmStdOk(c)
    THEN [ok |-> FALSE, reason |-> "insufficient_km_variation", n |-> Len(c), design |-> "none"]
    ELSE [ok |-> TRUE, reason |-> "", n |-> Len(c), design |-> "single_year"]

\* train_for_group_single_year up to the fit
SingleYearPlan(rows) == SingleYearGate(clean_rows(rows))

Plan(job) == IF job.tier = "model_year" THEN SingleYearPlan(job.rows) ELSE PooledPlan(job.rows)

\* ------------------------------------------------------------------------
\* analysis/train_price_models_3.py: routing (train_and_store)
\* ------------------------------------------------------------------------

\* the distinct values of a sequence, in order of first appearance (the
\* iteration order of a dict filled with setdefault)
RECURSIVE Distinct(_, _)
Distinct(xs, acc) ==
    IF xs = <<>> THEN acc
    ELSE IF \E i \in DOMAIN acc : acc[i] = xs[1]
         THEN Distinct(Tail(xs), acc)
         ELSE Distinct(Tail(xs), Append(acc, xs[1]))

\* FAMILY_RULES: (make_norm, family_base) with its match predicate
FAMILY_RULES == << [make |-> s_mercedes, base |-> s_e] >>

FamilyMatch(rule, mb) == mb # NULL /\ StartsWith(mb, rule.base)

\* a listing with the (nm, mb) that normalize_make_model gave for it
Keyed(c, nmb) == [c |-> c, nm |-> nmb[1], mb |-> nmb[2]]

Enriched(cs) ==
    [i \in DOMAIN cs |-> Keyed(cs[i], normalize_make_model(cs[i].make, cs[i].model))]

Job(tier, mk, mb, yr, rows) ==
    [tier |-> tier, make |-> mk, model |-> mb, year |-> yr, rows |-> rows]

\* one entry of the dictionaries by_make, by_model, by_family, by_year
Bucket(key, rows) == [key |-> key, rows |-> rows]

\* the listings of a selection of enriched
ListingsIn(sel) == [i \in DOMAIN sel |-> sel[i].c]

\* by_make, as the sequence of its entries in insertion order
by_make(en) ==
    LET withMake == SelectSeq(en, LAMBDA e : e.nm # NULL)
        keys == Distinct([i \in DOMAIN withMake |-> withMake[i].nm], <<>>)
    IN  [j \in DOMAIN keys |->
            Bucket(keys[j], ListingsIn(SelectSeq(en, LAMBDA e : e.nm = keys[j])))]

\* by_model with a listing that matches a family rule left to the family
by_model_family_instead(en) ==
    LET withModel == SelectSeq(en, LAMBDA e : /\ e.nm # NULL /\ e.mb # NULL
                                              /\ \A k \in DOMAIN FAMILY_RULES :
                                                    ~(/\ e.nm = FAMILY_RULES[k].make
                                                      /\ FamilyMatch(FAMILY_RULES[k], e.mb)))
        keys == Distinct([i \in DOMAIN withModel |->
                             <<withModel[i].nm, withModel[i].mb>>], <<>>)
    IN  [j \in DOMAIN keys |->
            Bucket(keys[j], ListingsIn(SelectSeq(en,
                LAMBDA e : e.nm = keys[j][1] /\ e.mb = keys[j][2])))]

\* by_model, keyed by (nm, mb)
by_model(en) ==
    LET withModel == SelectSeq(en, LAMBDA e : e.nm # NULL /\ e.mb # NULL)
        keys == Distinct([i \in DOMAIN withModel |->
                             <<withModel[i].nm, withModel[i].mb>>], <<>>)
    IN  [j \in DOMAIN keys |->
            Bucket(keys[j], ListingsIn(SelectSeq(en,
                LAMBDA e : e.nm = keys[j][1] /\ e.mb = keys[j][2])))]

\* "if nm == fam_make and rule.get("match", ...)(mb)", under "if nm and mb"
InFamily(rule, e) ==
    /\ e.nm # NULL /\ e.mb # NULL
    /\ e.nm = rule.make /\ FamilyMatch(rule, e.mb)

\* by_family for the rules given, keyed by (fam_make, fam_base): the rules
\* some listing matches
FamilyBuckets(en, rules) ==
    LET matched == SelectSeq(rules,
                             LAMBDA rule : \E i \in DOMAIN en : InFamily(rule, en[i]))
    IN  [j \in DOMAIN matched |->
            Bucket(<<matched[j].make, matched[j].base>>,
                   ListingsIn(SelectSeq(en, LAMBDA e : InFamily(matched[j], e))))]

by_family(en) == FamilyBuckets(en, FAMILY_RULES)

\* by_year without "if r.year"
by_year_undated_too(rows) ==
    LET years == Distinct([i \in DOMAIN rows |-> rows[i].year], <<>>)
    IN  [j \in DOMAIN years |->
            Bucket(years[j], SelectSeq(rows, LAMBDA r : r.year = years[j]))]

\* by_year of the rows of one (make, model_base): "if r.year" leaves year 0 out
by_year(rows) ==
    LET dated == SelectSeq(rows, LAMBDA r : r.year # 0)
        years == Distinct([i \in DOMAIN dated |-> dated[i].year], <<>>)
    IN  [j \in DOMAIN years |->
            Bucket(years[j], SelectSeq(rows, LAMBDA r : r.year = years[j]))]

\* the combination the model_year and model loops pass over
Excluded_never(key) == FALSE

Excluded(key) == key[1] = s_tesla /\ key[2] = s_model

\* the (make, model_base) entries the model_year and model loops train
TrainedModels(en) == SelectSeq(by_model(en), LAMBDA b : ~Excluded(b.key))

\* the model_year calls for one (make, model_base) entry
YearJobs(b, min_samples_model_year) ==
    LET yrs == SelectSeq(by_year(b.rows), LAMBDA y : Len(y.rows) >= min_samples_model_year)
    IN  [j \in DOMAIN yrs |-> Job("model_year", b.key[1], b.key[2], yrs[j].key, yrs[j].rows)]

RECURSIVE AllYearJobs(_, _)
AllYearJobs(bs, min_samples_model_year) ==
    IF bs = <<>> THEN <<>>
    ELSE YearJobs(bs[1], min_samples_model_year)
         \o AllYearJobs(Tail(bs), min_samples_model_year)

\* the pooled calls for the entries of a dictionary with at least min_rows rows
PooledJobs(tier, bs, min_rows) ==
    LET big == SelectSeq(bs, LAMBDA b : Len(b.rows) >= min_rows)
    IN  [j \in DOMAIN big |->
            Job(tier, IF tier = "make" THEN big[j].key ELSE big[j].key[1],
                IF tier = "make" THEN NULL ELSE big[j].key[2], NoneInt, big[j].rows)]

\* the calls of train_for_group_* that train_and_store makes, in order, en
\* being the listings with their normalized make and model base and
\* families the by_family dictionary
RouteWithFamilies(en, families, min_samples_model, min_samples_make, min_samples_model_year) ==
    AllYearJobs(TrainedModels(en), min_samples_model_year)
    \o PooledJobs("model", TrainedModels(en), min_samples_model)
    \o PooledJobs("model", families, min_samples_model)
    \o PooledJobs("make", by_make(en), min_samples_make)
    \o <<Job("global", NULL, NULL, NoneInt, ListingsIn(en))>>

RouteEnriched(en, min_samples_model, min_samples_make, min_samples_model_year) ==
    RouteWithFamilies(en, by_family(en), min_samples_model, min_samples_make,
                      min_samples_model_year)

RouteJobs(cs, min_samples_model, min_samples_make, min_samples_model_year) ==
    RouteEnriched(Enriched(cs), min_samples_model, min_samples_make, min_samples_model_year)

\* ------------------------------------------------------------------------
\* The listings table at the start of a run
\* ------------------------------------------------------------------------

\* n listings of one make and model: odometer readings alternate between kmA
\* and kmB, prices between pA and pB, years between yA and yB
Listings(n, make, model, yA, yB, kmA, kmB, pA, pB) ==
    [i \in 1..n |->
        CarListing(make, model,
                   IF i % 4 \in {0, 1} THEN yA ELSE yB,
                   IF i % 2 = 1 THEN kmA ELSE kmB,
                   IF i % 4 \in {1, 2} THEN pA ELSE pB)]

\* one model with enough listings of one year for every tier, and an outlier
D_rich ==
    Listings(12, r_Kia, r_RioSport, 2019, 2019, 10000, 50000, 20, 30)
    \o <<CarListing(r_Kia, r_RioSport, 2019, 20000, 900)>>

\* the same model with too few listings; listings without a make
D_poor ==
    Listings(6, r_Kia, r_RioSport, 2019, 2019, 10000, 50000, 20, 30)
    \o Listings(4, NULL, NULL, 2018, 2018, 5000, 100000, 10, 40)
    \o <<CarListing(r_Kia, r_RioSport, 2031, 20000, 25),
         CarListing(NULL, NULL, 2018, NoneInt, 25)>>

\* a family, the excluded combination, and a model below every gate
D_merc ==
    Listings(8, s_merc, r_EClass, 2015, 2020, 20000, 200000, 40, 60)
    \o Listings(2, s_tesla, s_model, 2021, 2021, 10000, 10000, 50, 50)
    \o Listings(5, s_tesla, s_model_s, 2021, 2021, 10000, 10000, 50, 50)
    \o Listings(2, r_Kia, r_RioSport, 2019, 2019, 10000, 50000, 20, 30)

D_empty == <<>>

\* a model whose base is the bare word "model": the excluded combination,
\* with enough listings of one year for every tier
D_tesla ==
    Listings(12, s_tesla, r_ModelQ, 2021, 2021, 10000, 50000, 50, 60)

\* a model with years apart and near-identical odometer readings, and a
\* model whose listings share one year and one reading
D_flat ==
    Listings(8, r_Kia, r_RioSport, 2015, 2020, 100000, 105000, 20, 30)
    \o Listings(12, r_Saab, r_93, 2018, 2018, 100000, 100000, 20, 30)

\* a model with enough listings of each of two years
D_years ==
    D_rich
    \o Listings(12, r_Kia, r_RioSport, 2018, 2018, 10000, 50000, 20, 30)
    \o <<CarListing(r_Kia, r_RioSport, 2018, 20000, 900)>>

Datasets == {"rich", "poor", "merc", "empty", "tesla", "flat", "years"}

ListingsOf == [rich |-> D_rich, poor |-> D_poor, merc |-> D_merc, empty |-> D_empty,
               tesla |-> D_tesla, flat |-> D_flat, years |-> D_years]

\* the listings tables of the runs that follow one another
RunDatasets == {"rich", "poor", "merc", "empty"}

\* the rows train_and_store selects: price, year and kilometers not null
SelectCars(listings) ==
    SelectSeq(listings, LAMBDA c : /\ c.price # NoneInt /\ c.year # NoneInt
                                   /\ c.kilometers # NoneInt)

\* cars, the routed buckets of train_and_store and the outcome of the gates
\* of each, tabulated per listings table (@@ makes a function an explicit
\* table, so that it is evaluated once)
CarsOf == [d \in Datasets |-> SelectCars(ListingsOf[d])] @@ <<>>

JobsOf ==
    [d \in Datasets |->
        RouteJobs(CarsOf[d], MIN_SAMPLES_MODEL, MIN_SAMPLES_MAKE, MIN_SAMPLES_MODEL_YEAR)]
    @@ <<>>

PlansFor(js) == [i \in DOMAIN js |-> Plan(js[i])] @@ <<>>

PlansOf == [d \in Datasets |-> PlansFor(JobsOf[d])] @@ <<>>

\* the defaults of the arguments of train_and_store
DefaultMins == <<MIN_SAMPLES_MODEL, MIN_SAMPLES_MAKE, MIN_SAMPLES_MODEL_YEAR>>

\* the arguments train_and_store is called with: the defaults, a higher and
\* a lower min_samples_model_year
ArgMins ==
    {DefaultMins,
     <<MIN_SAMPLES_MODEL, MIN_SAMPLES_MAKE, MIN_SAMPLES_MODEL_YEAR + 1>>,
     <<MIN_SAMPLES_MODEL, MIN_SAMPLES_MAKE, MIN_SAMPLES_MODEL_YEAR - 6>>}

\* the trainer calls and the outcome of their gates, per listings table and
\* arguments
JobsWith ==
    [d \in Datasets |->
        [ms \in ArgMins |-> RouteJobs(CarsOf[d], ms[1], ms[2], ms[3])] @@ <<>>]
    @@ <<>>

PlansWith ==
    [d \in Datasets |-> [ms \in ArgMins |-> PlansFor(JobsWith[d][ms])] @@ <<>>]
    @@ <<>>

\* the locals of the run in progress (or of the last run)
cars == CarsOf[dataset]
jobs == JobsWith[dataset][mins]
plans == PlansWith[dataset][mins]

\* ------------------------------------------------------------------------
\* Prediction requests
\* ------------------------------------------------------------------------

RequestYears  == {NoneInt, 2000, 2019, 2030}
RequestKms    == {NoneInt, -5, 50000}

Request(make, model, year, kilometers) ==
    [make |-> make, model |-> model, year |-> year, kilometers |-> kilometers]

Requests ==
    {Request(make, model, year, kilometers) :
        make \in RequestMakes, model \in RequestModels,
        year \in RequestYears, kilometers \in RequestKms}

\* the requests made while a trainer runs
TrainingRequests ==
    {Request(r_Kia, r_RioSport, 2019, 50000),
     Request(s_merc, r_EClass, 2019, 50000),
     Request(r_Saab, NULL, NoneInt, 50000)}

\* ------------------------------------------------------------------------
\* Actions
\* ------------------------------------------------------------------------

\* number of training runs the model follows
MaxRuns == 2

NotRouted == [enriched |-> <<>>, global |-> <<>>, make |-> <<>>, model |-> <<>>, family |-> <<>>,
              year |-> <<>>, jobs |-> <<>>]

NoResult == [raised |-> FALSE, predicted_price |-> NoneInt, tier_used |-> "none",
             bucket |-> NULL, rmse |-> NoneInt, band |-> NULL, pm |-> <<>>]

\* no call of clean_rows
NotCleaning == [rows |-> <<>>, out |-> <<>>, done |-> FALSE]

\* the scheduler's process when it has imported its modules, before any
\* job: the calendar year and the CURRENT_YEAR of the modules
NotRunning ==
    [calendar |-> CURRENT_YEAR, loaded |-> CURRENT_YEAR, ran |-> "none",
     at |-> CURRENT_YEAR, used |-> CURRENT_YEAR, rows |-> <<>>, out |-> <<>>,
     age |-> NoneInt]

\* update_daily_deals before it looked a listing up
NoDeal == [make |-> NULL, model |-> NULL, found |-> <<>>, best |-> <<>>, done |-> FALSE]

\* the trainer run from the command line, not started
NoCli == [pc |-> "idle", jobIdx |-> 0, deleted |-> {}, inserted |-> {}, seed |-> 1]

\* robust_ridge before its first round
NotFitting ==
    [round |-> 0, recency |-> <<>>, resid |-> <<>>, scale |-> 0,
     w_rob |-> <<>>, w |-> <<>>]

\* the activity checkers: check_all_active_listings and check_oldest_listings
Checkers == {"all", "oldest"}

\* one listing, active and old, that no checker has loaded
NoActivity ==
    [is_active |-> TRUE, scraped_at |-> 0, now |-> 0,
     seen |-> [c \in Checkers |-> "none"],
     dirty |-> [c \in Checkers |-> <<>>]]

\* the trainer and the resolver before any run or request
CoreInit ==
    /\ price_models = {}
    /\ txDeleted = {}
    /\ txInserted = {}
    /\ pc = "idle"
    /\ inRetrain = FALSE
    /\ dataset = "empty"
    /\ jobIdx = 0
    /\ pending = <<>>
    /\ updated = 0
    /\ skipped = 0
    /\ clock = 0
    /\ seed = 1
    /\ before = {}
    /\ beforeClear = {}
    /\ lastRun = "none"
    /\ written = {}
    /\ request = Request(NULL, NULL, NoneInt, NoneInt)
    /\ result = NoResult
    /\ table = <<>>
    /\ mins = DefaultMins
    /\ routed = NotRouted

\* the parts the trainer and the resolver do not touch, at rest
AuxInit ==
    /\ cleaning = NotCleaning
    /\ activity = NoActivity
    /\ irls = NotFitting
    /\ cli = NoCli
    /\ deal = NoDeal
    /\ process = NotRunning

Init == CoreInit /\ AuxInit

\* what the trainer's session sees: committed rows it has not deleted, and
\* the rows it has added
SessionView == {pm \in price_models : pm.id \notin txDeleted} \cup txInserted

\* retrain_all, first half: delete(PriceModel) and commit, in its own session
RetrainClear ==
    /\ UNCHANGED routeVars
    /\ UNCHANGED auxVars
    /\ pc = "idle"
    /\ clock < MaxRuns
    /\ beforeClear' = price_models
    /\ price_models' = {}
    /\ pc' = "cleared"
    /\ inRetrain' = TRUE
    /\ UNCHANGED <<txDeleted, txInserted, dataset, jobIdx, pending, updated, skipped,
                   clock, seed, before, lastRun, written, request, result>>

\* train_and_store, up to the end of routing; called by the scheduler or the
\* CLI (pc = "idle") or by retrain_all after its clear (pc = "cleared")
StartTrainWith(listings, v, ms) ==
    /\ mins' = ms
    /\ UNCHANGED <<table, routed>>
    /\ UNCHANGED auxVars
    /\ pc \in {"idle", "cleared"}
    /\ seed' = v
    /\ clock < MaxRuns
    /\ clock' = clock + 1
    /\ inRetrain' = (pc = "cleared")
    /\ dataset' = listings
    /\ jobIdx' = 1
    /\ pc' = "train"
    /\ updated' = 0
    /\ skipped' = 0
    /\ before' = price_models
    /\ written' = {}
    /\ txDeleted' = {}
    /\ txInserted' = {}
    /\ UNCHANGED <<price_models, pending, beforeClear, lastRun, request, result>>

\* train_and_store() with the default arguments
StartTrain(listings, v) == StartTrainWith(listings, v, DefaultMins)

\* after the bucket at jobIdx: the next bucket, or session.commit()
Advance ==
    /\ jobIdx' = jobIdx + 1
    /\ pc' = IF jobIdx + 1 > Len(jobs) THEN "commit" ELSE "train"

\* upsert_model with the delete comparing the nullable columns by = (in SQL
\* a comparison with NULL matches no row)
UpsertDelete_null_by_equality(job, coef, n, r2, rmse) ==
    LET match(pm) == /\ pm.tier = job.tier
                     /\ job.make # NULL /\ pm.make_norm = job.make
                     /\ job.model # NULL /\ pm.model_base = job.model
                     /\ job.year # NoneInt /\ pm.year = job.year
    IN  /\ txDeleted' = txDeleted \cup {pm.id : pm \in {p \in price_models : match(p)}}
        /\ txInserted' = {pm \in txInserted : ~match(pm)}
        /\ pending' = <<PriceModel(<<clock, jobIdx>>, job.tier, job.make, job.model, job.year,
                                   coef_json(coef), n, r2, rmse, clock)>>

\* upsert_model with the delete filtering on the tier alone
UpsertDelete_whole_tier(job, coef, n, r2, rmse) ==
    LET match(pm) == pm.tier = job.tier
    IN  /\ txDeleted' = txDeleted \cup {pm.id : pm \in {p \in price_models : match(p)}}
        /\ txInserted' = {pm \in txInserted : ~match(pm)}
        /\ pending' = <<PriceModel(<<clock, jobIdx>>, job.tier, job.make, job.model, job.year,
                                   coef_json(coef), n, r2, rmse, clock)>>

\* upsert_model with the delete of train_price_models.py, which has no filter
\* on the year
UpsertDelete_any_year(job, coef, n, r2, rmse) ==
    LET match(pm) == /\ pm.tier = job.tier
                     /\ pm.make_norm = job.make
                     /\ pm.model_base = job.model
    IN  /\ txDeleted' = txDeleted \cup {pm.id : pm \in {p \in price_models : match(p)}}
        /\ txInserted' = {pm \in txInserted : ~match(pm)}
        /\ pending' = <<PriceModel(<<clock, jobIdx>>, job.tier, job.make, job.model, job.year,
                                   coef_json(coef), n, r2, rmse, clock)>>

\* upsert_model adding the new row without deleting the rows of its key
UpsertDelete_insert_only(job, coef, n, r2, rmse) ==
    /\ txDeleted' = txDeleted
    /\ txInserted' = txInserted
    /\ pending' = <<PriceModel(<<clock, jobIdx>>, job.tier, job.make, job.model, job.year,
                               coef_json(coef), n, r2, rmse, clock)>>

\* upsert_model, first half: the coefficient dictionary and the delete of the
\* rows of the bucket key, executed in the session's transaction. The primary
\* key the database will assign is unique; it is represented by the pair
\* (run, bucket index).
UpsertDelete(job, coef, n, r2, rmse) ==
    LET match(pm) == /\ pm.tier = job.tier
                     /\ pm.make_norm = job.make
                     /\ pm.model_base = job.model
                     /\ pm.year = job.year
    IN  /\ txDeleted' = txDeleted \cup {pm.id : pm \in {p \in price_models : match(p)}}
        /\ txInserted' = {pm \in txInserted : ~match(pm)}
        /\ pending' = <<PriceModel(<<clock, jobIdx>>, job.tier, job.make, job.model, job.year,
                                   coef_json(coef), n, r2, rmse, clock)>>

\* what happens to the bucket being trained: nothing, robust_ridge raises,
\* or the delete that upsert_model executes raises
Outcomes == {"ok", "ridge_raises", "upsert_raises"}

\* "else: skipped += 1" without the count
SkipBucket_uncounted ==
    /\ skipped' = skipped
    /\ Advance
    /\ UNCHANGED <<txDeleted, txInserted, pending>>

\* the trainer returned (False, reason): "else: skipped += 1", next bucket
SkipBucket ==
    /\ skipped' = skipped + 1
    /\ Advance
    /\ UNCHANGED <<txDeleted, txInserted, pending>>

\* train_for_group_pooled / train_for_group_single_year on the bucket at
\* jobIdx, up to and including the delete of upsert_model. An exception of
\* robust_ridge is caught by both trainers ("ridge_fail"); an exception of
\* upsert_model is caught by train_for_group_pooled ("ridge_fail") and leaves
\* train_for_group_single_year and train_and_store, whose finally closes the
\* session.
TrainGroup(outcome) ==
    /\ UNCHANGED routeVars
    /\ UNCHANGED auxVars
    /\ pc = "train"
    /\ LET job  == jobs[jobIdx]
           plan == plans[jobIdx]
       IN  IF ~plan.ok
           THEN /\ outcome = "ok"
                /\ SkipBucket
                /\ UNCHANGED lastRun
           ELSE IF outcome = "ridge_raises"
                   \/ (outcome = "upsert_raises" /\ job.tier # "model_year")
           THEN /\ SkipBucket
                /\ UNCHANGED lastRun
           ELSE IF outcome = "upsert_raises"
           THEN /\ txDeleted' = {}
                /\ txInserted' = {}
                /\ pending' = <<>>
                /\ pc' = "idle"
                /\ lastRun' = "raised"
                /\ UNCHANGED <<skipped, jobIdx>>
           ELSE LET fit == robust_ridge(DesignColumns(plan.design), seed)
                IN  /\ UpsertDelete(job, map_to_full(plan.design, fit.coef),
                                    plan.n, fit.r2, fit.rmse)
                    /\ pc' = "insert"
                    /\ UNCHANGED <<skipped, jobIdx, lastRun>>
    /\ UNCHANGED <<price_models, inRetrain, dataset, updated, clock, seed, before,
                   beforeClear, written, request, result>>

\* upsert_model committing after each add
UpsertAdd_commit_each ==
    /\ UNCHANGED routeVars
    /\ UNCHANGED auxVars
    /\ pc = "insert"
    /\ price_models' = {pm \in price_models : pm.id \notin txDeleted}
                          \cup txInserted \cup {pending[1]}
    /\ txDeleted' = {}
    /\ txInserted' = {}
    /\ written' = written \cup {KeyOf(pending[1])}
    /\ pending' = <<>>
    /\ updated' = updated + 1
    /\ Advance
    /\ UNCHANGED <<inRetrain, dataset, skipped, clock, seed,
                   before, beforeClear, lastRun, request, result>>

\* upsert_model, second half: session.add of the new row; the caller counts it
UpsertAdd ==
    /\ UNCHANGED routeVars
    /\ UNCHANGED auxVars
    /\ pc = "insert"
    /\ txInserted' = txInserted \cup {pending[1]}
    /\ written' = written \cup {KeyOf(pending[1])}
    /\ pending' = <<>>
    /\ updated' = updated + 1
    /\ Advance
    /\ UNCHANGED <<price_models, txDeleted, inRetrain, dataset, skipped, clock, seed,
                   before, beforeClear, lastRun, request, result>>

\* session.commit() and the return of train_and_store
Commit ==
    /\ UNCHANGED routeVars
    /\ UNCHANGED auxVars
    /\ pc = "commit"
    /\ price_models' = SessionView
    /\ txDeleted' = {}
    /\ txInserted' = {}
    /\ pc' = "idle"
    /\ lastRun' = "committed"
    /\ UNCHANGED <<inRetrain, dataset, jobIdx, pending, updated, skipped, clock, seed,
                   before, beforeClear, written, request, result>>

\* the process dies, or an exception leaves train_and_store through its
\* finally (session.close()), or retrain_all stops after its clear: the
\* uncommitted transaction is rolled back
Crash ==
    /\ UNCHANGED routeVars
    /\ UNCHANGED auxVars
    /\ pc \in {"cleared", "train", "insert", "commit"}
    /\ txDeleted' = {}
    /\ txInserted' = {}
    /\ pending' = <<>>
    /\ pc' = "idle"
    /\ lastRun' = CASE pc = "cleared" -> "crashed_cleared"
                    [] pc = "train"   -> "crashed_train"
                    [] pc = "insert"  -> "crashed_insert"
                    [] pc = "commit"  -> "crashed_commit"
    /\ UNCHANGED <<price_models, inRetrain, dataset, jobIdx, updated, skipped, clock,
                   seed, before, beforeClear, written, request, result>>

\* predict_price reading the rows as the trainer's uncommitted deletes leave
\* them
Predict_dirty_read(make, model, year, kilometers) ==
    /\ request' = Request(make, model, year, kilometers)
    /\ result' \in predict_price({pm \in price_models : pm.id \notin txDeleted},
                                 make, model, year, kilometers)
    /\ UNCHANGED <<price_models>>
    /\ UNCHANGED trainVars
    /\ UNCHANGED routeVars
    /\ UNCHANGED auxVars

\* predict_price in a session of its own: it reads committed rows
Predict(make, model, year, kilometers) ==
    /\ request' = Request(make, model, year, kilometers)
    /\ result' \in predict_price(price_models, make, model, year, kilometers)
    /\ UNCHANGED <<price_models>>
    /\ UNCHANGED trainVars
    /\ UNCHANGED routeVars
    /\ UNCHANGED auxVars

Next ==
    \/ RetrainClear
    \/ \E d \in RunDatasets, v \in FitVariants : StartTrain(d, v)
    \/ TrainGroup("ok")
    \/ UpsertAdd
    \/ Commit
    \/ Crash
    \/ \E r \in TrainingRequests : Predict(r.make, r.model, r.year, r.kilometers)

Spec == Init /\ [][Next]_vars

\* ------------------------------------------------------------------------
\* One run of train_and_store on any listings table, the fit and the upsert
\* of each bucket succeeding or raising
\* ------------------------------------------------------------------------

StartOnce(listings, v) ==
    /\ clock = 0
    /\ StartTrain(listings, v)

NextTrain ==
    \/ \E d \in Datasets, v \in FitVariants : StartOnce(d, v)
    \/ \E o \in Outcomes : TrainGroup(o)
    \/ UpsertAdd
    \/ Commit

SpecTrain == Init /\ [][NextTrain]_vars

\* ------------------------------------------------------------------------
\* One run of train_and_store(min_samples_model, min_samples_make,
\* min_samples_model_year) with arguments other than the defaults
\* ------------------------------------------------------------------------

StartWithArgs(listings, v, ms) ==
    /\ clock = 0
    /\ StartTrainWith(listings, v, ms)

NextArgs ==
    \/ \E d \in Datasets, v \in FitVariants, ms \in ArgMins : StartWithArgs(d, v, ms)
    \/ TrainGroup("ok")
    \/ UpsertAdd
    \/ Commit

SpecArgs == Init /\ [][NextArgs]_vars

\* ------------------------------------------------------------------------
\* train_and_store called again on the listings of the run before it, at the
\* same time (the fit, which depends on the rows and on the time, is the
\* same)
\* ------------------------------------------------------------------------

StartAgain(listings, v) ==
    /\ clock >= 1
    /\ pc = "idle"
    /\ listings = dataset
    /\ v = seed
    /\ StartTrain(listings, v)

NextTwice ==
    \/ \E d \in Datasets, v \in FitVariants : StartOnce(d, v)
    \/ \E d \in Datasets, v \in FitVariants : StartAgain(d, v)
    \/ TrainGroup("ok")
    \/ UpsertAdd
    \/ Commit

SpecTwice == Init /\ [][NextTwice]_vars

\* ------------------------------------------------------------------------
\* Routing alone: the dictionaries train_and_store builds, and the trainer
\* calls it makes, for every small listings table and small minimums
\* ------------------------------------------------------------------------

\* longest table routed
MaxTable == 3

\* the listings a table is made of: two years of one model, a model of the
\* Mercedes family, a Mercedes whose model has no base, the excluded Tesla
\* combination, a listing without make, a listing of year 0
RouteRows ==
    {CarListing(r_Kia, r_RioSport, 2019, 50000, 20),
     CarListing(r_Kia, r_RioSport, 2020, 50000, 20),
     CarListing(s_merc, r_EClass, 2019, 50000, 20),
     CarListing(s_merc, r_E220, 2019, 50000, 20),
     CarListing(s_tesla, r_ModelQ, 2021, 50000, 20),
     CarListing(NULL, r_RioSport, 2019, 50000, 20),
     CarListing(r_Kia, r_RioSport, 0, 50000, 20)}

Tables == UNION {[1..n -> RouteRows] : n \in 0..MaxTable}

RouteMins == {1, 2}

\* the by_year dictionary of one (make, model_base) entry, its keys
\* completed with the make and the model base
YearBuckets(b, years) ==
    [j \in DOMAIN years |-> Bucket(<<b.key[1], b.key[2], years[j].key>>, years[j].rows)]

RECURSIVE AllYearBuckets(_)
AllYearBuckets(bs) ==
    IF bs = <<>> THEN <<>>
    ELSE YearBuckets(bs[1], by_year(bs[1].rows)) \o AllYearBuckets(Tail(bs))

\* enriched, global_rows, by_make, by_model, by_family, the by_year dictionaries, and
\* the calls of the trainers
Routing(en, ms) ==
    [enriched |-> en,
     global |-> ListingsIn(en),
     make   |-> by_make(en),
     model  |-> by_model(en),
     family |-> by_family(en),
     year   |-> AllYearBuckets(TrainedModels(en)),
     jobs   |-> RouteEnriched(en, ms[1], ms[2], ms[3])]

\* normalize_make_model on the listings of RouteRows, tabulated
NormalizedRows ==
    [c \in RouteRows |-> normalize_make_model(c.make, c.model)] @@ <<>>

\* enriched, read from the table
EnrichedRows(cs) == [i \in DOMAIN cs |-> Keyed(cs[i], NormalizedRows[cs[i]])]

InitRoute ==
    /\ price_models = {}
    /\ txDeleted = {}
    /\ txInserted = {}
    /\ pc = "idle"
    /\ inRetrain = FALSE
    /\ dataset = "empty"
    /\ jobIdx = 0
    /\ pending = <<>>
    /\ updated = 0
    /\ skipped = 0
    /\ clock = 0
    /\ seed = 1
    /\ before = {}
    /\ beforeClear = {}
    /\ lastRun = "none"
    /\ written = {}
    /\ request = Request(NULL, NULL, NoneInt, NoneInt)
    /\ result = NoResult
    /\ table \in Tables
    /\ mins \in RouteMins \X RouteMins \X RouteMins
    /\ routed = NotRouted
    /\ AuxInit

\* train_and_store from the select to the last trainer call, the trainers
\* left out
RouteCall ==
    /\ routed = NotRouted
    /\ routed' = Routing(EnrichedRows(SelectCars(table)), mins)
    /\ UNCHANGED <<price_models, request, result, table, mins>>
    /\ UNCHANGED trainVars
    /\ UNCHANGED auxVars

NextRoute == RouteCall

SpecRoute == InitRoute /\ [][NextRoute]_vars

\* ------------------------------------------------------------------------
\* clean_rows alone, on every small list of listings
\* ------------------------------------------------------------------------

\* longest list of valid listings cleaned
MaxClean == 6

\* valid listings: three prices, three odometer readings
ValidRows ==
    {CarListing(r_Kia, r_RioSport, 2019, 100, 10),
     CarListing(r_Kia, r_RioSport, 2019, 200, 20),
     CarListing(r_Kia, r_RioSport, 2019, 300, 20),
     CarListing(r_Kia, r_RioSport, 2019, 100, 30)}

\* listings that fail a validity test each
InvalidRows ==
    {CarListing(r_Kia, r_RioSport, 2019, 100, 0),
     CarListing(r_Kia, r_RioSport, 2019, 100, -5),
     CarListing(r_Kia, r_RioSport, 1989, 100, 20),
     CarListing(r_Kia, r_RioSport, CURRENT_YEAR + 1, 100, 20),
     CarListing(r_Kia, r_RioSport, 2019, -1, 20),
     CarListing(r_Kia, r_RioSport, 2019, NoneInt, 20)}

ValidLists == UNION {[1..n -> ValidRows] : n \in 0..MaxClean}

\* lists of valid listings, short lists of any listings, and lists of five
\* valid listings after an invalid one
CleanInputs ==
    ValidLists
    \cup UNION {[1..n -> ValidRows \cup InvalidRows] : n \in 1..2}
    \cup {<<x>> \o v : x \in InvalidRows, v \in [1..5 -> ValidRows]}

InitClean ==
    /\ CoreInit
    /\ cleaning \in {[rows |-> rows, out |-> <<>>, done |-> FALSE] : rows \in CleanInputs}
    /\ activity = NoActivity
    /\ irls = NotFitting
    /\ cli = NoCli
    /\ deal = NoDeal
    /\ process = NotRunning

CleanCall ==
    /\ ~cleaning.done
    /\ cleaning' = [rows |-> cleaning.rows, out |-> clean_rows(cleaning.rows), done |-> TRUE]
    /\ UNCHANGED <<price_models, request, result>>
    /\ UNCHANGED trainVars
    /\ UNCHANGED routeVars
    /\ UNCHANGED except_cleaning

NextClean == CleanCall

SpecClean == InitClean /\ [][NextClean]_vars

\* ------------------------------------------------------------------------
\* The resolver alone: one predict_price call on a store left by earlier
\* runs, for every request and every such store
\* ------------------------------------------------------------------------

\* bucket keys earlier runs may have written, with the design of each
StoredBuckets ==
    {[tier |-> "model_year", make |-> s_kia, model |-> s_rio, year |-> 2019,
      design |-> "single_year"],
     [tier |-> "model", make |-> s_kia, model |-> s_rio, year |-> NoneInt,
      design |-> "logkm"],
     [tier |-> "model", make |-> s_mercedes, model |-> s_eclass, year |-> NoneInt,
      design |-> "full"],
     [tier |-> "make", make |-> s_kia, model |-> NULL, year |-> NoneInt,
      design |-> "age"],
     [tier |-> "global", make |-> NULL, model |-> NULL, year |-> NoneInt,
      design |-> "full"]}

\* the row a run with outcome v wrote for bucket b
StoredRow(b, v) ==
    LET fit == robust_ridge(DesignColumns(b.design), v)
    IN  PriceModel(<<0, b.tier, b.make, b.model>>, b.tier, b.make, b.model, b.year,
                   coef_json(map_to_full(b.design, fit.coef)),
                   MIN_SAMPLES_MODEL_YEAR, fit.r2, fit.rmse, 0)

InitStores ==
    {{StoredRow(b, v) : b \in S} : S \in SUBSET StoredBuckets, v \in FitVariants}

PENDING == [raised |-> FALSE, predicted_price |-> NoneInt, tier_used |-> "pending",
            bucket |-> NULL, rmse |-> NoneInt, band |-> NULL, pm |-> <<>>]

InitPredict ==
    /\ price_models \in InitStores
    /\ txDeleted = {}
    /\ txInserted = {}
    /\ pc = "idle"
    /\ inRetrain = FALSE
    /\ dataset = "empty"
    /\ jobIdx = 0
    /\ pending = <<>>
    /\ updated = 0
    /\ skipped = 0
    /\ clock = 0
    /\ seed = 1
    /\ before = {}
    /\ beforeClear = {}
    /\ lastRun = "none"
    /\ written = {}
    /\ request \in Requests
    /\ result = PENDING
    /\ table = <<>>
    /\ mins = DefaultMins
    /\ routed = NotRouted
    /\ AuxInit

PredictCall ==
    /\ result = PENDING
    /\ Predict(request.make, request.model, request.year, request.kilometers)

NextPredict == PredictCall

SpecPredict == InitPredict /\ [][NextPredict]_vars

\* ========================================================================
\* Properties
\* ========================================================================

\* the (make_key, model_key) of the request
ReqKey == Normalized(request.make, request.model)

Returned == result # PENDING

RowsAt(rows, tier, mk, mb) ==
    {pm \in rows : pm.tier = tier /\ pm.make_norm = mk /\ pm.model_base = mb}

\* the tier the fixed order model, make, global selects on a store
TierRank(tier) ==
    CASE tier = "model_year" -> 0
      [] tier = "model" -> 1
      [] tier = "make" -> 2
      [] tier = "global" -> 3
      [] tier = "none" -> 4

StoredTiers(rows, nm, mb) ==
    {t \in {"model", "make", "global"} :
        \/ t = "model" /\ nm # NULL /\ mb # NULL /\ RowsAt(rows, "model", nm, mb) # {}
        \/ t = "make" /\ nm # NULL /\ RowsAt(rows, "make", nm, NULL) # {}
        \/ t = "global" /\ RowsAt(rows, "global", NULL, NULL) # {}}

FirstStoredTier(rows, nm, mb) ==
    IF StoredTiers(rows, nm, mb) = {} THEN "none"
    ELSE CHOOSE t \in StoredTiers(rows, nm, mb) :
            \A u \in StoredTiers(rows, nm, mb) : TierRank(t) <= TierRank(u)

\* C1: a request with a year, for which the store holds the model_year row
\* of its (make_key, model_key, year), is answered from that row with
\* tier_used = model_year.
C1_ModelYearPreferred ==
    \A pm \in price_models :
        (/\ Returned
         /\ request.year # NoneInt
         /\ request.kilometers # NoneInt
         /\ pm.tier = "model_year"
         /\ pm.make_norm = ReqKey[1]
         /\ pm.model_base = ReqKey[2]
         /\ pm.year = request.year)
        => (result.tier_used = "model_year" /\ result.pm = <<pm>>)

\* C2: the row used is the model row of (make_key, model_key) if stored, else
\* the make row of make_key if stored, else the global row if stored;
\* tier_used names the tier of the row used; with the row used removed from
\* the store, the same request resolves to the next stored tier of that order.
C2_FixedFallbackOrder ==
    (Returned /\ ~result.raised) =>
        LET nm == ReqKey[1]
            mb == ReqKey[2]
            t  == FirstStoredTier(price_models, nm, mb)
        IN  /\ result.tier_used = t
            /\ t # "none" =>
                 /\ result.pm # <<>>
                 /\ result.pm[1] \in price_models
                 /\ result.pm[1].tier = t
                 /\ t = "model" => result.pm[1] \in RowsAt(price_models, "model", nm, mb)
                 /\ t = "make" => result.pm[1] \in RowsAt(price_models, "make", nm, NULL)
                 /\ LET rest == price_models \ {result.pm[1]}
                    IN  \A again \in predict_price(rest, request.make, request.model,
                                                   request.year, request.kilometers) :
                            /\ again.tier_used = FirstStoredTier(rest, nm, mb)
                            /\ TierRank(again.tier_used) > TierRank(t)

\* a request answered from the make tier while a global row is stored too
C2_Witness ==
    /\ Returned
    /\ result.tier_used = "make"
    /\ RowsAt(price_models, "global", NULL, NULL) # {}
    /\ ReqKey[2] # NULL

\* C3: with no row stored at any tier for the request, predict_price returns
\* tier_used = none with price, bucket, rmse and band null and does not
\* raise; a price is returned only from a stored row.
C3_NoneWhenNoRecord ==
    Returned =>
        /\ FirstStoredTier(price_models, ReqKey[1], ReqKey[2]) = "none"
             => /\ ~result.raised
                /\ result.tier_used = "none"
                /\ result.predicted_price = NoneInt
                /\ result.bucket = NULL
                /\ result.rmse = NoneInt
                /\ result.band = NULL
        /\ result.predicted_price # NoneInt
             => (result.pm # <<>> /\ result.pm[1] \in price_models)

\* the none result for a request without a year, on a store that holds rows
\* of other buckets
C3_Witness ==
    /\ Returned
    /\ result.tier_used = "none"
    /\ request.year = NoneInt
    /\ price_models # {}

\* C4: a request whose (make, model) matches no stored model or make row gets
\* tier_used = global when a global row is stored and none otherwise, and
\* predict_price does not raise, whatever the year and kilometers.
C4_GlobalOrNoneNeverRaises ==
    (/\ Returned
     /\ ~(\E t \in {"model", "make"} : t \in StoredTiers(price_models, ReqKey[1], ReqKey[2])))
    => /\ ~result.raised
       /\ result.tier_used = IF RowsAt(price_models, "global", NULL, NULL) # {}
                             THEN "global" ELSE "none"

\* C5: predicted_price, band.low and band.high are the integers nearest to
\* max(0, estimate), max(0, estimate - rmse) and max(0, estimate + rmse); none
\* is negative.
Nearest(p, x100) == 2 * (IF 100 * p >= x100 THEN 100 * p - x100 ELSE x100 - 100 * p) <= 100

C5_FlooredAtZero ==
    (Returned /\ ~result.raised /\ result.pm # <<>>) =>
        LET e    == _predict_from_coefs(result.pm[1].coef_json, request.year,
                                        request.kilometers)
            rmse == result.pm[1].rmse
        IN  /\ Nearest(result.predicted_price, Max(0, e))
            /\ Nearest(result.band[1], Max(0, e - 100 * rmse))
            /\ Nearest(result.band[2], Max(0, e + 100 * rmse))
            /\ result.predicted_price >= 0
            /\ result.band[1] >= 0
            /\ result.band[2] >= 0

\* an estimate above 0 whose lower band endpoint alone is floored
C5_Witness ==
    /\ Returned /\ ~result.raised /\ result.pm # <<>>
    /\ result.predicted_price > 0
    /\ result.band[1] = 0
    /\ _predict_from_coefs(result.pm[1].coef_json, request.year, request.kilometers)
         < 100 * result.pm[1].rmse

\* ------------------------------------------------------------------------
\* Properties of training runs
\* ------------------------------------------------------------------------

JobKey(job) == <<job.tier, job.make, job.model, job.year>>

RowsWithKey(rows, K) == {pm \in rows : KeyOf(pm) = K}

\* every bucket key some listings table routes to
KeyUniverse == UNION {{JobKey(JobsOf[d][i]) : i \in DOMAIN JobsOf[d]} : d \in Datasets}

\* the listings of a table that belong to the bucket of key K
BucketRows(d, K) ==
    LET en == Enriched(CarsOf[d])
        in(e) ==
            CASE K[1] = "global" -> TRUE
              [] K[1] = "make" -> e.nm # NULL /\ e.nm = K[2]
              [] K[1] = "model" ->
                    /\ e.nm # NULL /\ e.mb # NULL /\ e.nm = K[2]
                    /\ \/ e.mb = K[3]
                       \/ \E i \in DOMAIN FAMILY_RULES :
                             /\ FAMILY_RULES[i].make = K[2]
                             /\ FAMILY_RULES[i].base = K[3]
                             /\ FamilyMatch(FAMILY_RULES[i], e.mb)
              [] K[1] = "model_year" ->
                    /\ e.nm # NULL /\ e.mb # NULL /\ e.nm = K[2] /\ e.mb = K[3]
                    /\ e.c.year = K[4]
        sel == SelectSeq(en, in)
    IN  [i \in DOMAIN sel |-> sel[i].c]

\* number of cleaned observations of each bucket, per listings table
CleanCountOf ==
    [d \in Datasets |-> [K \in KeyUniverse |-> Len(clean_rows(BucketRows(d, K)))] @@ <<>>]
    @@ <<>>

Threshold(K) == IF K[1] = "model_year" THEN MIN_SAMPLES_MODEL_YEAR ELSE MIN_CLEAN_POOLED

\* the bucket of key K is below its minimum-sample threshold in the run
Insufficient(K) == CleanCountOf[dataset][K] < Threshold(K)

RunCommitted == pc = "idle" /\ lastRun = "committed"

C8_OneRecordPerKey ==
    \A a \in price_models : \A b \in price_models : KeyOf(a) = KeyOf(b) => a = b

\* the second run replaced the row the first run wrote for a key
C8_Witness ==
    /\ RunCommitted
    /\ \E pm \in price_models : \E old \in before :
        /\ KeyOf(old) = KeyOf(pm)
        /\ old.trained_at < pm.trained_at
        /\ pm.make_norm = NULL

InTrainAndStore == pc \in {"train", "insert", "commit"}

TrainCrashed == pc = "idle" /\ lastRun \in {"crashed_train", "crashed_insert", "crashed_commit"}

\* C9: while train_and_store has not committed, and after it crashed at any
\* point, the store holds exactly the rows it held when the run started.
C9_CrashLeavesStoreAsBefore ==
    (InTrainAndStore \/ TrainCrashed) => price_models = before

\* a crash between the delete and the add of a bucket that had a row, after
\* another bucket of the run had been upserted
C9_Witness ==
    /\ pc = "idle"
    /\ lastRun = "crashed_insert"
    /\ updated >= 1
    /\ RowsWithKey(before, JobKey(jobs[jobIdx])) # {}
    /\ price_models = before

\* the bucket keys a completed run on the listings table writes
FittedKeys(d) == {JobKey(JobsOf[d][i]) : i \in {j \in DOMAIN JobsOf[d] : PlansOf[d][j].ok}}

\* C10: during retrain_all's training and after a crash of it, a bucket that
\* had a row before the retrain and has enough data for one has a row.
C10_NeverZeroDuringRetrain ==
    (inRetrain /\ (InTrainAndStore \/ TrainCrashed)) =>
        \A pm \in beforeClear :
            KeyOf(pm) \in FittedKeys(dataset) => RowsWithKey(price_models, KeyOf(pm)) # {}

\* ------------------------------------------------------------------------
\* Properties of one run whose buckets may fail
\* ------------------------------------------------------------------------

RunRaised == pc = "idle" /\ lastRun = "raised"

\* rows the run in progress (or the last run) committed
RowsOfRun == {pm \in price_models : pm.trained_at = clock}

\* C11: a bucket whose fit or upsert raises never ends the run: the run goes
\* through every remaining bucket and its commit stores the row of every
\* bucket it upserted.
C11_FailuresAreBucketLocal ==
    /\ ~RunRaised
    /\ RunCommitted =>
          /\ jobIdx = Len(jobs) + 1
          /\ \A K \in written : \E pm \in RowsOfRun : KeyOf(pm) = K

RECURSIVE YearBucketCount(_)
YearBucketCount(bs) ==
    IF bs = <<>> THEN 0 ELSE Len(by_year(bs[1].rows)) + YearBucketCount(Tail(bs))

\* number of buckets routing forms from the enriched listings: the entries
\* of by_year, by_model, by_family and by_make, and the global bucket
RoutedBuckets(models, en) ==
    YearBucketCount(models) + Len(models) + Len(by_family(en)) + Len(by_make(en)) + 1

RoutedCountOf ==
    [d \in Datasets |-> RoutedBuckets(TrainedModels(Enriched(CarsOf[d])), Enriched(CarsOf[d]))]
    @@ <<>>

\* C12: a run returns updated = the number of rows it wrote, and counts
\* every other bucket routing formed once in skipped, so that updated +
\* skipped is the number of buckets routing formed.
C12_CountsCoverRoutedBuckets ==
    (RunCommitted /\ clock > 0) =>
        /\ updated = Cardinality(RowsOfRun)
        /\ updated + skipped = RoutedCountOf[dataset]

\* ------------------------------------------------------------------------
\* Properties of a run repeated on the same listings
\* ------------------------------------------------------------------------

\* what a record holds besides its primary key and its training time
Content(pm) ==
    [key |-> KeyOf(pm), coef_json |-> pm.coef_json, n_samples |-> pm.n_samples,
     r2 |-> pm.r2, rmse |-> pm.rmse]

ContentOf(rows) == {Content(pm) : pm \in rows}

RanAgain == clock >= 2 /\ pc = "idle" /\ lastRun = "committed"

\* C13: when train_and_store has run again on the same listings at the same
\* time, the store holds what it held after the run before it: as many
\* records, with the same keys, coefficients, sample_count, r2 and rmse.
C13_SecondRunChangesNothing ==
    RanAgain =>
        /\ ContentOf(price_models) = ContentOf(before)
        /\ Cardinality(price_models) = Cardinality(before)

\* the second run on the Mercedes table has rewritten its four records
C13_Witness ==
    /\ RanAgain
    /\ dataset = "merc"
    /\ updated = 4
    /\ Cardinality(price_models) = 4
    /\ \A pm \in price_models : pm.trained_at = clock

\* ------------------------------------------------------------------------
\* Properties of routing
\* ------------------------------------------------------------------------

Routed == routed # NotRouted

\* the observations routed, with their make_key and model_key
Observations == routed.enriched

Count(rows, c) == Cardinality({i \in DOMAIN rows : rows[i] = c})

\* c is in the bucket of bs keyed key as often as in the table, and in no
\* other bucket of bs
InOwnBucketOnly(bs, key, c) ==
    /\ \E j \in DOMAIN bs : bs[j].key = key /\ Count(bs[j].rows, c) = Count(table, c)
    /\ \A j \in DOMAIN bs : Count(bs[j].rows, c) > 0 => bs[j].key = key
    /\ \A j, k \in DOMAIN bs : bs[j].key = bs[k].key => j = k

InNoBucket(bs, c) == \A j \in DOMAIN bs : Count(bs[j].rows, c) = 0

\* what holds of every observation whatever its keys
RoutedByKeys(e) ==
    /\ Count(routed.global, e.c) = Count(table, e.c)
    /\ IF e.nm # NULL THEN InOwnBucketOnly(routed.make, e.nm, e.c)
                      ELSE InNoBucket(routed.make, e.c)
    /\ IF e.nm # NULL /\ e.mb # NULL
       THEN InOwnBucketOnly(routed.model, <<e.nm, e.mb>>, e.c)
       ELSE InNoBucket(routed.model, e.c) /\ InNoBucket(routed.year, e.c)
    /\ \A j \in DOMAIN routed.family :
          Count(routed.family[j].rows, e.c) > 0 =>
              /\ e.nm = routed.family[j].key[1]
              /\ e.mb # NULL
              /\ StartsWith(e.mb, routed.family[j].key[2])

\* C14 (as stated): every observation is in the global bucket; with a
\* make_key, in exactly one make bucket, its own; with both keys, in exactly
\* one model bucket and exactly one model_year bucket, its own; and in no
\* bucket whose key it does not match.
C14_EveryObservationInItsBuckets ==
    Routed =>
        \A i \in DOMAIN Observations :
            /\ RoutedByKeys(Observations[i])
            /\ (Observations[i].nm # NULL /\ Observations[i].mb # NULL) =>
                   InOwnBucketOnly(routed.year,
                       <<Observations[i].nm, Observations[i].mb, Observations[i].c.year>>,
                       Observations[i].c)

HasYearBucket(e) ==
    /\ e.nm # NULL /\ e.mb # NULL
    /\ ~(e.nm = s_tesla /\ e.mb = s_model)
    /\ e.c.year # 0

\* C14 (amended): as stated, except that an observation of the excluded
\* combination (tesla, model), or of year 0, is in no model_year bucket.
C14_InItsBucketsUnlessExcludedOrUndated ==
    Routed =>
        \A i \in DOMAIN Observations :
            /\ RoutedByKeys(Observations[i])
            /\ IF HasYearBucket(Observations[i])
               THEN InOwnBucketOnly(routed.year,
                        <<Observations[i].nm, Observations[i].mb, Observations[i].c.year>>,
                        Observations[i].c)
               ELSE InNoBucket(routed.year, Observations[i].c)

\* a table of a Kia of 2019, a Kia of year 0 and an excluded Tesla has been
\* routed: two model entries, one model_year bucket
C14_Witness ==
    /\ Routed
    /\ Len(table) = 3
    /\ \E i \in DOMAIN table : table[i].year = 0
    /\ \E i \in DOMAIN table : table[i].make = s_tesla
    /\ Len(routed.global) = 3
    /\ Len(routed.model) = 2
    /\ Len(routed.year) = 1
    /\ Len(routed.year[1].rows) = 1

\* the family rules an observation matches
FamiliesOf(e) == {k \in DOMAIN FAMILY_RULES : InFamily(FAMILY_RULES[k], e)}

\* the trainer call is for a family bucket
IsFamilyJob(job) ==
    /\ job.tier = "model"
    /\ \E k \in DOMAIN FAMILY_RULES :
          job.make = FAMILY_RULES[k].make /\ job.model = FAMILY_RULES[k].base

\* C15: an observation that matches a family rule is in the family's
\* bucket and also in the model bucket of its own pair, as often as in the
\* table; and the model_year, model, make and global trainer calls, with
\* their rows, are those of a routing with no family rule.
C15_FamilyInAdditionToModel ==
    Routed =>
        /\ \A i \in DOMAIN Observations :
              \A k \in FamiliesOf(Observations[i]) :
                  /\ InOwnBucketOnly(routed.model,
                         <<Observations[i].nm, Observations[i].mb>>, Observations[i].c)
                  /\ \E j \in DOMAIN routed.family :
                        /\ routed.family[j].key =
                               <<FAMILY_RULES[k].make, FAMILY_RULES[k].base>>
                        /\ Count(routed.family[j].rows, Observations[i].c)
                               = Count(table, Observations[i].c)
        /\ SelectSeq(routed.jobs, LAMBDA job : ~IsFamilyJob(job))
               = RouteWithFamilies(routed.enriched, <<>>, mins[1], mins[2], mins[3])

\* two Mercedes E-Class listings and a Kia have been routed: the E-Class
\* listings make the family bucket and their own model bucket, both trained
C15_Witness ==
    /\ Routed
    /\ Len(routed.family) = 1
    /\ Len(routed.family[1].rows) = 2
    /\ Len(routed.model) = 2
    /\ \E j \in DOMAIN routed.model :
          /\ routed.model[j].key = <<s_mercedes, s_eclass>>
          /\ routed.model[j].rows = routed.family[1].rows
    /\ Cardinality({j \in DOMAIN routed.jobs : routed.jobs[j].tier = "model"}) = 3

\* C16: no key of by_family is a key of by_model, and no two trainer calls
\* of a run are for the same bucket key: a family and a specific model
\* never write the same record.
C16_FamilyKeyIsNoModelKey ==
    Routed =>
        /\ \A j \in DOMAIN routed.family : \A k \in DOMAIN routed.model :
              routed.family[j].key # routed.model[k].key
        /\ \A i, j \in DOMAIN routed.jobs :
              JobKey(routed.jobs[i]) = JobKey(routed.jobs[j]) => i = j

\* a Mercedes "E 220", whose only token "e" is dropped, has been routed with
\* a Mercedes E-Class: the family (mercedes-benz, e) is trained, and the
\* "E 220" is in the make bucket alone
C16_Witness ==
    /\ Routed
    /\ \E i \in DOMAIN routed.enriched :
          /\ routed.enriched[i].c.model = r_E220
          /\ routed.enriched[i].nm = s_mercedes
          /\ routed.enriched[i].mb = NULL
    /\ \E j \in DOMAIN routed.jobs :
          JobKey(routed.jobs[j]) = <<"model", s_mercedes, s_e, NoneInt>>
    /\ \E j \in DOMAIN routed.jobs :
          JobKey(routed.jobs[j]) = <<"model", s_mercedes, s_eclass, NoneInt>>

\* ------------------------------------------------------------------------
\* Properties of the trainers
\* ------------------------------------------------------------------------

\* a key of the excluded combination at the model or the model_year tier
ExcludedKey(K) ==
    /\ K[1] \in {"model", "model_year"}
    /\ K[2] = s_tesla
    /\ K[3] = s_model

\* C17: no bucket of the combination (tesla, model) is handed to a trainer
\* and no record of it is added or stored, at the model tier or at any
\* model_year.
C17_ExcludedNeverTrained ==
    /\ \A j \in DOMAIN jobs : ~ExcludedKey(JobKey(jobs[j]))
    /\ \A j \in DOMAIN pending : ~ExcludedKey(KeyOf(pending[j]))
    /\ \A pm \in txInserted \cup price_models : ~ExcludedKey(KeyOf(pm))

\* the run on twelve Tesla "Model Q" of 2021, whose model base is "model",
\* has committed the make and the global record
C17_Witness ==
    /\ dataset = "tesla"
    /\ lastRun = "committed"
    /\ \E i \in DOMAIN cars :
          normalize_make_model(cars[i].make, cars[i].model)[2] = s_model
    /\ updated = 2
    /\ {pm.tier : pm \in price_models} = {"make", "global"}

Slots == {"intercept", "beta_age", "beta_logkm", "beta_age_logkm"}

\* the slots of a coefficient dictionary that hold a fitted coefficient (no
\* fitted coefficient is 0)
Fitted(cj) == {s \in DOMAIN cj : cj[s] # 0}

\* the spreads of a cleaned bucket, against MIN_AGE_STD and MIN_LOGKM_STD
Spread(c) ==
    [n       |-> Len(c),
     age     |-> c # <<>> /\ AgeStdOk(c),
     logkm   |-> c # <<>> /\ LogKmStdOk(c),
     oneYear |-> \A i, j \in DOMAIN c : c[i].year = c[j].year,
     oneKm   |-> \A i, j \in DOMAIN c : c[i].kilometers = c[j].kilometers]

SpreadOf ==
    [d \in Datasets |->
        [K \in KeyUniverse |-> Spread(clean_rows(BucketRows(d, K)))] @@ <<>>]
    @@ <<>>

\* the spreads of the cleaned bucket of the trainer call in progress
spread == SpreadOf[dataset][JobKey(jobs[jobIdx])]

\* a pooled bucket has passed the gate and been fitted; its row is built
PooledFitted == pc = "insert" /\ jobs[jobIdx].tier # "model_year"

\* C18: the row built for a pooled bucket holds fitted coefficients in all
\* four slots when the age spread and the log_km spread both reach their
\* thresholds, in intercept and beta_logkm when only log_km does, in
\* intercept and beta_age when only age does, in the intercept alone when
\* neither does; a bucket of one year whose log_km spread reaches its
\* threshold has intercept and beta_logkm.
C18_DesignFollowsSpreads ==
    PooledFitted =>
        /\ Fitted(pending[1].coef_json) =
              IF spread.age /\ spread.logkm THEN Slots
              ELSE IF spread.logkm THEN {"intercept", "beta_logkm"}
              ELSE IF spread.age THEN {"intercept", "beta_age"}
              ELSE {"intercept"}
        /\ (spread.oneYear /\ spread.logkm) =>
              Fitted(pending[1].coef_json) = {"intercept", "beta_logkm"}

\* the model bucket of twelve Kia Rio of one year, with odometers of 10000
\* and 50000, has been fitted
C18_Witness ==
    /\ PooledFitted
    /\ dataset = "rich"
    /\ jobs[jobIdx].tier = "model"
    /\ spread.oneYear /\ ~spread.oneKm /\ spread.logkm /\ ~spread.age
    /\ spread.n >= MIN_CLEAN_POOLED
    /\ pending[1].coef_json.beta_logkm # 0

\* the rows the run has built, added or committed
RowsBuilt == Range(pending) \cup txInserted \cup RowsOfRun

\* the slots of the design fitted for the bucket of key K
DesignSlots(K) ==
    IF K[1] = "model_year" THEN {"intercept", "beta_logkm"}
    ELSE IF SpreadOf[dataset][K].age /\ SpreadOf[dataset][K].logkm THEN Slots
    ELSE IF SpreadOf[dataset][K].logkm THEN {"intercept", "beta_logkm"}
    ELSE IF SpreadOf[dataset][K].age THEN {"intercept", "beta_age"}
    ELSE {"intercept"}

\* C19: every record has the four slots intercept, beta_age, beta_logkm and
\* beta_age_logkm, and a slot whose term is not in the design fitted for
\* its bucket holds 0; a model_year record has beta_age = 0 and
\* beta_age_logkm = 0, and the fitted slope of log_km in beta_logkm.
C19_FourSlotsZeroOutsideDesign ==
    \A pm \in RowsBuilt :
        /\ DOMAIN pm.coef_json = Slots
        /\ \A s \in Slots \ DesignSlots(KeyOf(pm)) : pm.coef_json[s] = 0
        /\ pm.tier = "model_year" =>
              /\ pm.coef_json.beta_age = 0
              /\ pm.coef_json.beta_age_logkm = 0
              /\ pm.coef_json.intercept = robust_ridge(2, seed).coef[1]
              /\ pm.coef_json.beta_logkm = robust_ridge(2, seed).coef[2]

\* the run on the Kia table has committed a model_year record and pooled
\* records of the log_km-only design
C19_Witness ==
    /\ lastRun = "committed"
    /\ dataset = "rich"
    /\ \E pm \in price_models :
          /\ pm.tier = "model_year"
          /\ pm.coef_json.beta_logkm # 0
    /\ \E pm \in price_models :
          /\ pm.tier = "global"
          /\ Fitted(pm.coef_json) = {"intercept", "beta_logkm"}

\* a pooled bucket whose log_km spread is below its threshold has been fitted
FlatKmFitted == PooledFitted /\ ~spread.logkm

\* C20 (as stated): the row built for a pooled bucket whose log_km spread
\* is below its threshold has the age-only design, intercept and beta_age.
C20_FlatKmGivesAgeOnly ==
    FlatKmFitted => Fitted(pending[1].coef_json) = {"intercept", "beta_age"}

\* C20 (amended): it has the age-only design when the age spread reaches
\* its threshold, and the intercept alone when it does not.
C20_FlatKmGivesAgeOnlyOrIntercept ==
    FlatKmFitted =>
        Fitted(pending[1].coef_json) =
            IF spread.age THEN {"intercept", "beta_age"} ELSE {"intercept"}

\* the model bucket of eight Kia Rio of 2015 and 2020 with odometers of
\* 100000 and 105000 has been fitted
C20_Witness ==
    /\ FlatKmFitted
    /\ dataset = "flat"
    /\ jobs[jobIdx].tier = "model"
    /\ ~spread.oneKm /\ ~spread.oneYear /\ spread.age
    /\ pending[1].coef_json.beta_age # 0
    /\ pending[1].coef_json.beta_logkm = 0

\* ------------------------------------------------------------------------
\* Properties of a run with given arguments
\* ------------------------------------------------------------------------

\* C21: every record the run builds, adds or commits has n_samples of at
\* least 8 at the model, make and global tiers and of at least the
\* min_samples_model_year the run was called with at the model_year tier.
C21_SampleCountReachesMinimum ==
    \A pm \in RowsBuilt :
        IF pm.tier = "model_year"
        THEN pm.n_samples >= mins[3]
        ELSE pm.n_samples >= MIN_CLEAN_POOLED

\* ------------------------------------------------------------------------
\* Properties of clean_rows
\* ------------------------------------------------------------------------

\* the validity invariant of an observation
ValidObservation(r) ==
    /\ r.price # NoneInt /\ r.price > 0
    /\ r.year # NoneInt /\ 1990 <= r.year /\ r.year <= CURRENT_YEAR
    /\ r.kilometers # NoneInt /\ r.kilometers >= 0

ValidOf(rows) == SelectSeq(rows, ValidObservation)

PricesOf(rows) == [i \in DOMAIN rows |-> rows[i].price]

KilometersOf(rows) == [i \in DOMAIN rows |-> rows[i].kilometers]

\* the rows whose price is within the 5th and 95th percentile of the prices
InPriceRange(rows) ==
    SelectSeq(rows, LAMBDA r : /\ Percentile100(PricesOf(rows), 5) <= 100 * r.price
                               /\ 100 * r.price <= Percentile100(PricesOf(rows), 95))

\* likewise for the odometer readings
InKmRange(rows) ==
    SelectSeq(rows, LAMBDA r :
        /\ Percentile100(KilometersOf(rows), 5) <= 100 * r.kilometers
        /\ 100 * r.kilometers <= Percentile100(KilometersOf(rows), 95))

\* what clean_rows returned is made of valid rows of its argument
CleanedIsValidSubset ==
    /\ \A i \in DOMAIN cleaning.out :
          /\ ValidObservation(cleaning.out[i])
          /\ Count(cleaning.out, cleaning.out[i]) <= Count(cleaning.rows, cleaning.out[i])
    /\ Len(ValidOf(cleaning.rows)) < 5 => cleaning.out = ValidOf(cleaning.rows)

\* C22: clean_rows returns valid rows of its argument; all the
\* valid rows when they are fewer than 5; otherwise those within the
\* percentile range of price and then within the percentile range of
\* kilometers.
C22_CleanTrimsPriceThenKm ==
    cleaning.done =>
        /\ CleanedIsValidSubset
        /\ Len(ValidOf(cleaning.rows)) >= 5 =>
              cleaning.out = InKmRange(InPriceRange(ValidOf(cleaning.rows)))

\* what clean_rows does: the trim on kilometers is applied only when at
\* least 5 rows are left by the trim on price
CleanTrimsKmWhenFiveLeft ==
    cleaning.done =>
        /\ CleanedIsValidSubset
        /\ Len(ValidOf(cleaning.rows)) >= 5 =>
              cleaning.out =
                  IF Len(InPriceRange(ValidOf(cleaning.rows))) < 5
                  THEN InPriceRange(ValidOf(cleaning.rows))
                  ELSE InKmRange(InPriceRange(ValidOf(cleaning.rows)))

\* six rows, five of them valid, have been cleaned: the trim on price left
\* five, the trim on kilometers four
CleanTrimmedKm ==
    /\ cleaning.done
    /\ Len(cleaning.rows) = 6
    /\ Len(ValidOf(cleaning.rows)) = 5
    /\ Len(InPriceRange(ValidOf(cleaning.rows))) = 5
    /\ Len(cleaning.out) = 4

\* ------------------------------------------------------------------------
\* Properties of predictions made while a run is in progress
\* ------------------------------------------------------------------------

\* a step of predict_price
PredictStep == request' # request \/ result' # result

RunInProgress == pc \in {"train", "insert", "commit"}

\* C23: a predict_price call leaves the store as it is, and one made while
\* a training run is in progress returns what the store of before the run
\* gives: for a bucket key the run rewrites, the old record, whole, never
\* none.
C23_PredictSeesCommittedRecords ==
    [][PredictStep =>
          /\ price_models' = price_models
          /\ RunInProgress =>
                result' \in predict_price(before, request'.make, request'.model,
                                          request'.year, request'.kilometers)]_vars

\* the run has deleted the old record of a bucket key in its transaction
\* and not yet added the new one, and the prediction for that key has the
\* old record
C23_Witness ==
    /\ pc = "insert"
    /\ result.pm # <<>>
    /\ KeyOf(result.pm[1]) = KeyOf(pending[1])
    /\ result.pm[1] \in before
    /\ result.pm[1].id \in txDeleted
    /\ result.pm[1].trained_at < clock

\* ------------------------------------------------------------------------
\* check_all_active_listings.py, check_oldest_listings.py: the activity
\* checks of one listing. Each checker loads the active listings into a
\* session of its own, visits them one by one and commits in batches.
\* ------------------------------------------------------------------------

MaxNow == 4

\* the query of a checker: listings with is_active == True
LoadListings(c) ==
    /\ activity.seen[c] = "none"
    /\ activity.is_active
    /\ activity' = [activity EXCEPT !.seen[c] = "loaded"]

\* the commit of a batch of listings visited before this one: the session
\* drops what it loaded and reads the row again when it is next used
BatchCommit(c) ==
    /\ activity.seen[c] = "loaded"
    /\ activity' = [activity EXCEPT !.seen[c] = "expired"]

\* listing.is_active as the session of checker c has it
SeenActive(c) ==
    IF activity.seen[c] = "loaded" THEN TRUE ELSE activity.is_active

\* check_all_active_listings: one listing of the loop
CheckAll(is_active) ==
    /\ activity.seen["all"] \in {"loaded", "expired"}
    /\ activity.now < MaxNow
    /\ activity' =
          [activity EXCEPT
              !.now = @ + 1,
              !.seen["all"] = "checked",
              !.dirty["all"] =
                  IF is_active = "False"
                    THEN IF SeenActive("all") THEN <<activity.now + 1>>
                                              ELSE <<NoneInt>>
                    ELSE <<>>]

\* check_oldest_listings: one listing of the loop
CheckOldest(is_active) ==
    /\ activity.seen["oldest"] \in {"loaded", "expired"}
    /\ activity.now < MaxNow
    /\ activity' =
          [activity EXCEPT
              !.now = @ + 1,
              !.seen["oldest"] = "checked",
              !.dirty["oldest"] =
                  IF ~is_active THEN <<activity.now + 1>> ELSE <<>>]

\* session.commit() after the listing was visited
CommitChecks(c) ==
    /\ activity.seen[c] = "checked"
    /\ activity' =
          [activity EXCEPT
              !.seen[c] = "none",
              !.dirty[c] = <<>>,
              !.is_active = IF activity.dirty[c] # <<>> THEN FALSE ELSE @,
              !.scraped_at = IF activity.dirty[c] \notin {<<>>, <<NoneInt>>}
                               THEN activity.dirty[c][1] ELSE @]

ActivityFrame ==
    /\ UNCHANGED <<price_models, request, result>>
    /\ UNCHANGED trainVars
    /\ UNCHANGED routeVars
    /\ UNCHANGED except_activity

NextActivity ==
    \/ \E c \in Checkers : LoadListings(c) /\ ActivityFrame
    \/ \E c \in Checkers : BatchCommit(c) /\ ActivityFrame
    \/ \E a \in {"False", "True", "None"} : CheckAll(a) /\ ActivityFrame
    \/ \E a \in BOOLEAN : CheckOldest(a) /\ ActivityFrame
    \/ \E c \in Checkers : CommitChecks(c) /\ ActivityFrame

SpecActivity == Init /\ [][NextActivity]_vars

\* ------------------------------------------------------------------------
\* Properties of the activity checks
\* ------------------------------------------------------------------------

\* C24: the stored scraped_at of a listing changes only in the step that
\* takes the listing from active to inactive, and then to the time of that
\* check; a check that finds an inactive listing inactive leaves it.
C24_ScrapedAtSetOnFirstDeactivationOnly ==
    [][activity'.scraped_at # activity.scraped_at =>
          /\ activity.is_active
          /\ ~activity'.is_active]_vars

\* what holds of the code: scraped_at changes only when a check that has
\* found the listing inactive is committed
ScrapedAtSetByInactiveCheckOnly ==
    [][activity'.scraped_at # activity.scraped_at =>
          /\ ~activity'.is_active
          /\ \E c \in Checkers : /\ activity.seen[c] = "checked"
                                 /\ activity.dirty[c] = <<activity'.scraped_at>>]_vars

\* a listing that was deactivated at one time holds a later one
ScrapedAtOverwritten ==
    /\ ~activity.is_active
    /\ activity.scraped_at > 1
    /\ \A c \in Checkers : activity.seen[c] = "none"

\* ------------------------------------------------------------------------
\* Properties of one upsert
\* ------------------------------------------------------------------------

\* the rows of the trainer's session whose key is not K
OtherKeys(rows, K) == {pm \in rows : KeyOf(pm) # K}

\* C25: the two steps of an upsert, the delete of the rows of the key and
\* the add of the new row, leave every row of another key in the session
\* as it was.
C25_UpsertLeavesOtherKeys ==
    [][/\ (pending = <<>> /\ pending' # <<>>) =>
              OtherKeys(SessionView', KeyOf(pending'[1]))
                  = OtherKeys(SessionView, KeyOf(pending'[1]))
       /\ (pending # <<>> /\ pending' = <<>> /\ pc' # "idle") =>
              OtherKeys(SessionView', KeyOf(pending[1]))
                  = OtherKeys(SessionView, KeyOf(pending[1]))]_vars

\* the upsert of a model_year key has deleted the old row of its key while
\* the session holds the row of another year of the same model, and rows of
\* the other tiers
C25_Witness ==
    /\ pc = "insert"
    /\ pending[1].tier = "model_year"
    /\ \E old \in price_models : /\ old.id \in txDeleted
                                 /\ KeyOf(old) = KeyOf(pending[1])
    /\ \E pm \in SessionView : /\ pm.tier = "model_year"
                               /\ pm.make_norm = pending[1].make_norm
                               /\ pm.model_base = pending[1].model_base
                               /\ pm.year # pending[1].year
    /\ \E pm \in SessionView : /\ pm.tier = "model"
                               /\ pm.make_norm = pending[1].make_norm
                               /\ pm.model_base = pending[1].model_base

\* ------------------------------------------------------------------------
\* Properties of a solve that fails
\* ------------------------------------------------------------------------

\* a record whose coefficients, r2 and rmse are finite
FiniteRecord(pm) ==
    /\ \A s \in DOMAIN pm.coef_json : pm.coef_json[s] # NonFinite
    /\ pm.r2 # NonFinite
    /\ pm.rmse # NonFinite

\* the step of a bucket that passed its gates and for which no record is
\* built, the run going on
SolveFailed ==
    /\ pc = "train"
    /\ plans[jobIdx].ok
    /\ pending' = <<>>
    /\ pc' \in {"train", "commit"}

IRLS_STEPS == 3

\* HUBER_C = 1.345
HUBER_C == <<269, 200>>

\* the 1e-9 of "if scale <= 1e-9"
SCALE_EPS == 10

\* the scale 1.0 of "np.std(resid) or 1.0", beyond HUBER_C times every
\* residual of ResidValues
SCALE_ONE == 10000

Abs(x) == IF x < 0 THEN -x ELSE x

RECURSIVE GCD(_, _)
GCD(a, b) == IF b = 0 THEN a ELSE GCD(b, a % b)

\* the fraction n/d in lowest terms
Q(n, d) == IF n = 0 THEN <<0, 1>> ELSE <<n \div GCD(n, d), d \div GCD(n, d)>>

QLe(a, b) == a[1] * b[2] <= b[1] * a[2]

QMul(a, b) == Q(a[1] * b[1], a[2] * b[2])

QDiv(a, b) == Q(a[1] * b[2], a[2] * b[1])

\* np.clip(w, 0.0, 1.0)
Clip01(a) == IF a[1] < 0 THEN <<0, 1>> ELSE IF a[1] > a[2] THEN <<1, 1>> ELSE a

\* np.median of an odd number of values
Median(s) ==
    CHOOSE m \in Range(s) :
        /\ 2 * Cardinality({i \in DOMAIN s : s[i] <= m}) > Len(s)
        /\ 2 * Cardinality({i \in DOMAIN s : s[i] >= m}) > Len(s)

ISqrt(x) == CHOOSE k \in 0..x : k * k <= x /\ x < (k + 1) * (k + 1)

\* np.std, to the unit; a spread below the unit is not taken for none
Std(s) ==
    LET n   == Len(s)
        nv  == n * SumSeq([i \in DOMAIN s |-> s[i] * s[i]])
                 - SumSeq(s) * SumSeq(s)
    IN  IF nv = 0 THEN 0 ELSE Max(1, ISqrt(nv \div (n * n)))

\* robust_ridge: scale = 1.4826 * mad if mad > 0 else (np.std(resid) or 1.0)
RobustScale(resid) ==
    LET med == Median(resid)
        mad == Median([i \in DOMAIN resid |-> Abs(resid[i] - med)])
    IN  IF mad > 0 THEN Max(1, (7413 * mad) \div 5000)
        ELSE IF Std(resid) # 0 THEN Std(resid) ELSE SCALE_ONE

\* huber_weights(residuals, scale, c)
huber_weights(residuals, scale, c) ==
    IF scale <= SCALE_EPS
    THEN [i \in DOMAIN residuals |-> <<1, 1>>]
    ELSE [i \in DOMAIN residuals |->
             IF c[2] * Abs(residuals[i]) > c[1] * scale
               THEN Clip01(Q(c[1] * scale, c[2] * Abs(residuals[i])))
               ELSE <<1, 1>>]

\* np.max of a vector of weights
QMax(w) == CHOOSE m \in Range(w) : \A x \in Range(w) : QLe(x, m)

\* w = w_recency * w_rob; w = w / (np.max(w) or 1.0)
CombinedWeights(w_recency, w_rob) ==
    LET w == [i \in DOMAIN w_recency |-> QMul(w_recency[i], w_rob[i])]
        m == IF QMax(w)[1] = 0 THEN <<1, 1>> ELSE QMax(w)
    IN  [i \in DOMAIN w |-> QDiv(w[i], m)]

\* residuals of a round, of the order of the rounding of a price (1e-10) up
\* to 4e-9
ResidValues == {-40, -4, 0, 1, 40}

\* the residuals of three observations. The intercept is not penalised, so
\* the weighted residuals of a fit sum to 0: they are all 0 or of both signs
ResidVectors ==
    {r \in [1..3 -> ResidValues] :
        \/ \A i \in 1..3 : r[i] = 0
        \/ (\E i \in 1..3 : r[i] < 0) /\ (\E i \in 1..3 : r[i] > 0)}

\* recency weights: listings scraped now and one half-life ago
RecencyVectors == [1..3 -> {<<1, 1>>, <<1, 2>>}]

InitHuber ==
    /\ CoreInit
    /\ cleaning = NotCleaning
    /\ activity = NoActivity
    /\ irls \in {[NotFitting EXCEPT !.recency = rc, !.w = rc] : rc \in RecencyVectors}
    /\ cli = NoCli
    /\ deal = NoDeal
    /\ process = NotRunning

\* one round of "for _ in range(IRLS_STEPS)", after the fit
IrlsRound(resid) ==
    /\ irls.round < IRLS_STEPS
    /\ irls.recency # <<>>
    /\ irls' = [round   |-> irls.round + 1,
                recency |-> irls.recency,
                resid   |-> resid,
                scale   |-> RobustScale(resid),
                w_rob   |-> huber_weights(resid, RobustScale(resid), HUBER_C),
                w       |-> CombinedWeights(irls.recency,
                               huber_weights(resid, RobustScale(resid), HUBER_C))]
    /\ UNCHANGED <<price_models, request, result>>
    /\ UNCHANGED trainVars
    /\ UNCHANGED routeVars
    /\ UNCHANGED except_irls

NextHuber == \E resid \in ResidVectors : IrlsRound(resid)

SpecHuber == InitHuber /\ [][NextHuber]_vars

\* ------------------------------------------------------------------------
\* Properties of the weights of a round
\* ------------------------------------------------------------------------

\* C27: in each round a Huber weight is 1 when |resid| <= scale*c and
\* scale*c/|resid| otherwise, above 0 and at most 1; the combined weights
\* after rescaling lie in [0, 1] and the largest is 1.
C27_HuberWeightsAndRescaling ==
    irls.round >= 1 =>
        /\ \A i \in DOMAIN irls.resid :
              /\ irls.w_rob[i] =
                    IF HUBER_C[2] * Abs(irls.resid[i]) <= HUBER_C[1] * irls.scale
                      THEN <<1, 1>>
                      ELSE Q(HUBER_C[1] * irls.scale, HUBER_C[2] * Abs(irls.resid[i]))
              /\ irls.w_rob[i][1] > 0
              /\ QLe(irls.w_rob[i], <<1, 1>>)
        /\ \A i \in DOMAIN irls.w : irls.w[i][1] >= 0 /\ QLe(irls.w[i], <<1, 1>>)
        /\ \E i \in DOMAIN irls.w : irls.w[i] = <<1, 1>>

\* what holds of the code: the weights are above 0 and at most 1, follow
\* the rule when the scale is above 1e-9 and are all 1 when it is not; the
\* largest combined weight is 1
HuberWeightsAboveTinyScale ==
    irls.round >= 1 =>
        /\ \A i \in DOMAIN irls.resid :
              /\ irls.scale > SCALE_EPS =>
                    irls.w_rob[i] =
                       IF HUBER_C[2] * Abs(irls.resid[i]) <= HUBER_C[1] * irls.scale
                         THEN <<1, 1>>
                         ELSE Q(HUBER_C[1] * irls.scale, HUBER_C[2] * Abs(irls.resid[i]))
              /\ irls.scale <= SCALE_EPS => irls.w_rob[i] = <<1, 1>>
              /\ irls.w_rob[i][1] > 0
              /\ QLe(irls.w_rob[i], <<1, 1>>)
        /\ \A i \in DOMAIN irls.w : irls.w[i][1] >= 0 /\ QLe(irls.w[i], <<1, 1>>)
        /\ \E i \in DOMAIN irls.w : irls.w[i] = <<1, 1>>

\* a third round with a scale of at most 1e-9 and a residual beyond scale*c
TinyScaleRound ==
    /\ irls.round = IRLS_STEPS
    /\ irls.scale <= SCALE_EPS
    /\ \E i \in DOMAIN irls.resid :
          HUBER_C[2] * Abs(irls.resid[i]) > HUBER_C[1] * irls.scale

\* a round that gives a weight below 1
DownWeightedRound ==
    /\ irls.round >= 1
    /\ \E i \in DOMAIN irls.w_rob : irls.w_rob[i][1] < irls.w_rob[i][2]

\* ------------------------------------------------------------------------
\* Two training runs at once: the scheduler's job and a run from the command
\* line, each train_and_store in a session of its own over the same
\* listings. A statement of a session sees the rows committed when it
\* executes; price_models_unique is checked against the committed rows.
\* ------------------------------------------------------------------------

\* a key price_models_unique binds: in a unique constraint a NULL equals
\* no NULL
NonNullKey(pm) == pm.make_norm # NULL /\ pm.model_base # NULL /\ pm.year # NoneInt

\* an added row has the bound key of a committed row
UniqueViolation(committed, inserted) ==
    \E a \in inserted : \E b \in committed : KeyOf(a) = KeyOf(b) /\ NonNullKey(a)

\* session.commit() of the scheduler's run: IntegrityError and the rollback
\* of the whole run when an added row breaks price_models_unique
CommitUnique ==
    IF UniqueViolation({pm \in price_models : pm.id \notin txDeleted}, txInserted)
    THEN /\ pc = "commit"
         /\ txDeleted' = {}
         /\ txInserted' = {}
         /\ pc' = "idle"
         /\ lastRun' = "raised"
         /\ UNCHANGED <<price_models, inRetrain, dataset, jobIdx, pending, updated,
                        skipped, clock, seed, before, beforeClear, written, request,
                        result>>
         /\ UNCHANGED routeVars
         /\ UNCHANGED auxVars
    ELSE Commit

CliFrame ==
    /\ UNCHANGED <<request, result>>
    /\ UNCHANGED trainVars
    /\ UNCHANGED routeVars
    /\ UNCHANGED except_cli

\* train_and_store() from the command line, while the scheduler's run is
\* under way
CliStart(v) ==
    /\ cli.pc = "idle"
    /\ pc \in {"train", "insert", "commit"}
    /\ cli' = [pc |-> "train", jobIdx |-> 1, deleted |-> {}, inserted |-> {}, seed |-> v]
    /\ UNCHANGED price_models
    /\ CliFrame

\* the bucket at cli.jobIdx: its trainer and, when it passes the gates,
\* upsert_model
CliTrainGroup ==
    /\ cli.pc = "train"
    /\ LET job  == jobs[cli.jobIdx]
           plan == plans[cli.jobIdx]
           fit  == robust_ridge(DesignColumns(plan.design), cli.seed)
           row  == PriceModel(<<0, cli.jobIdx>>, job.tier, job.make, job.model,
                              job.year, coef_json(map_to_full(plan.design, fit.coef)),
                              plan.n, fit.r2, fit.rmse, clock)
       IN  cli' = [cli EXCEPT
                     !.jobIdx = @ + 1,
                     !.pc = IF cli.jobIdx + 1 > Len(jobs) THEN "commit" ELSE "train",
                     !.deleted = IF plan.ok
                                   THEN @ \cup {pm.id : pm \in RowsWithKey(price_models, JobKey(job))}
                                   ELSE @,
                     !.inserted = IF plan.ok
                                    THEN {pm \in @ : KeyOf(pm) # JobKey(job)} \cup {row}
                                    ELSE @]
    /\ UNCHANGED price_models
    /\ CliFrame

\* session.commit() of the run from the command line
CliCommit ==
    /\ cli.pc = "commit"
    /\ IF UniqueViolation({pm \in price_models : pm.id \notin cli.deleted}, cli.inserted)
       THEN /\ cli' = [cli EXCEPT !.pc = "raised", !.deleted = {}, !.inserted = {}]
            /\ UNCHANGED price_models
       ELSE /\ cli' = [cli EXCEPT !.pc = "committed", !.deleted = {}, !.inserted = {}]
            /\ price_models' = {pm \in price_models : pm.id \notin cli.deleted}
                                  \cup cli.inserted
    /\ CliFrame

NextTwoRuns ==
    \/ \E d \in Datasets, v \in FitVariants : StartOnce(d, v)
    \/ TrainGroup("ok")
    \/ UpsertAdd
    \/ CommitUnique
    \/ \E v \in FitVariants : CliStart(v)
    \/ CliTrainGroup
    \/ CliCommit

SpecTwoRuns == Init /\ [][NextTwoRuns]_vars

\* ------------------------------------------------------------------------
\* Properties of two runs at once
\* ------------------------------------------------------------------------

\* C28: when the scheduler's run and the run from the command line have
\* both committed, the store holds at most one row for every bucket key,
\* the keys with a null make, model or year among them.
C28_OneRecordPerKeyAfterBothRuns ==
    (RunCommitted /\ cli.pc = "committed") =>
        \A a \in price_models : \A b \in price_models : KeyOf(a) = KeyOf(b) => a = b

\* what holds of the code: at most one row for every key without a null
BoundKeysUnique ==
    \A a \in price_models : \A b \in price_models :
        (KeyOf(a) = KeyOf(b) /\ NonNullKey(a)) => a = b

\* both runs have committed and the store holds two rows of a key
TwoRowsOfOneKey ==
    /\ RunCommitted
    /\ cli.pc = "committed"
    /\ \E a \in price_models : \E b \in price_models : KeyOf(a) = KeyOf(b) /\ a # b

\* the commit of one of the runs was refused
SecondCommitRefused == cli.pc = "raised" \/ (RunRaised /\ cli.pc = "committed")

\* ------------------------------------------------------------------------
\* analysis/update_daily_deals.py: ModelIndex.find_best, next to
\* _best_bucket of predict_price.py on the same rows
\* ------------------------------------------------------------------------

\* _to_model_base_for_search: the first token of the lowered model with
\* every character outside [a-z0-9\s-] blanked, "" when there is none
_to_model_base_for_search(model) ==
    IF model = NULL \/ model = <<>> THEN <<>>
    ELSE LET parts == Split(BlankOutside(_nfkc_lower(model), MakeClass))
         IN  IF parts = <<>> THEN <<>> ELSE parts[1]

\* ModelIndex.__init__ and find_best on the rows of select(PriceModel): the
\* rows find_best may return, as one-element sequences, <<>> for None. Of
\* the rows of one key the dictionary keeps the last that the query
\* returned, in the order the database chose.
find_best(rows, make, model) ==
    LET nmb == normalize_make_model(make, model)
        nm  == nmb[1]
        mb  == IF nmb[2] = NULL /\ model # NULL /\ model # <<>>
               THEN _to_model_base_for_search(model) ELSE nmb[2]
        model_map == {pm \in rows : /\ pm.tier = "model"
                                    /\ pm.make_norm # NULL /\ pm.model_base # NULL
                                    /\ pm.make_norm = nm /\ pm.model_base = mb}
        make_map  == {pm \in rows : /\ pm.tier = "make"
                                    /\ pm.make_norm # NULL /\ pm.model_base = NULL
                                    /\ pm.make_norm = nm}
        global_model == {pm \in rows : /\ pm.tier = "global"
                                       /\ pm.make_norm = NULL /\ pm.model_base = NULL}
    IN  IF model_map # {} THEN {<<pm>> : pm \in model_map}
        ELSE IF make_map # {} THEN {<<pm>> : pm \in make_map}
        ELSE IF global_model # {} THEN {<<pm>> : pm \in global_model}
        ELSE {<<>>}

\* the makes and models of the listings looked up
DealMakes  == {<<>>, r_Kia, s_merc}
DealModels == {<<>>, r_RioSport, r_E220, s_model}

\* the row of the model key (kia, rio) that a second run committed next to
\* the first run's, and the row of a model key whose base is the word
\* "model"
SecondRioRow ==
    PriceModel(<<1, "model", s_kia, s_rio>>, "model", s_kia, s_rio, NoneInt,
               coef_json(map_to_full("logkm", robust_ridge(DesignColumns("logkm"), 2).coef)),
               MIN_SAMPLES_MODEL_YEAR, 0, 0, 1)

ModelWordRow ==
    PriceModel(<<0, "model", s_kia, s_model>>, "model", s_kia, s_model, NoneInt,
               coef_json(map_to_full("logkm", robust_ridge(DesignColumns("logkm"), 1).coef)),
               MIN_SAMPLES_MODEL_YEAR, 80, 10, 0)

DealStores ==
    {{StoredRow(b, 1) : b \in S} \cup X :
        S \in SUBSET StoredBuckets, X \in SUBSET {SecondRioRow, ModelWordRow}}

InitDeals ==
    /\ price_models \in DealStores
    /\ txDeleted = {}
    /\ txInserted = {}
    /\ pc = "idle"
    /\ inRetrain = FALSE
    /\ dataset = "empty"
    /\ jobIdx = 0
    /\ pending = <<>>
    /\ updated = 0
    /\ skipped = 0
    /\ clock = 0
    /\ seed = 1
    /\ before = {}
    /\ beforeClear = {}
    /\ lastRun = "none"
    /\ written = {}
    /\ request = Request(NULL, NULL, NoneInt, NoneInt)
    /\ result = NoResult
    /\ table = <<>>
    /\ mins = DefaultMins
    /\ routed = NotRouted
    /\ cleaning = NotCleaning
    /\ activity = NoActivity
    /\ irls = NotFitting
    /\ cli = NoCli
    /\ deal \in {[NoDeal EXCEPT !.make = mk, !.model = md] :
                    mk \in DealMakes, md \in DealModels}
    /\ process = NotRunning

\* idx.find_best(r.make, r.model), and _best_bucket for the same make and
\* model on the same rows
FindBest ==
    /\ ~deal.done
    /\ \E f \in find_best(price_models, deal.make, deal.model) :
       \E b \in TryTiers(price_models, normalize_make_model(deal.make, deal.model)) :
          deal' = [deal EXCEPT !.found = f, !.best = b.pm, !.done = TRUE]
    /\ UNCHANGED <<price_models, request, result>>
    /\ UNCHANGED trainVars
    /\ UNCHANGED routeVars
    /\ UNCHANGED except_deal

NextDeals == FindBest

SpecDeals == InitDeals /\ [][NextDeals]_vars

\* ------------------------------------------------------------------------
\* Properties of the two resolvers
\* ------------------------------------------------------------------------

\* C29: for every store and every make and model, find_best returns the
\* row _best_bucket picks, or None when it picks none.
C29_FindBestIsBestBucket == deal.done => deal.found = deal.best

\* more than one row of a key
DuplicateKeys(rows) == \E a \in rows : \E b \in rows : KeyOf(a) = KeyOf(b) /\ a # b

\* the fallback of find_best applies: the model has no base
NoBase(model) == model # NULL /\ model # <<>> /\ model_base(model) = NULL

\* what holds of the code: the two agree on a store with one row a key,
\* for a model that has a base or is absent
FindBestAgreesWithoutFallback ==
    (deal.done /\ ~DuplicateKeys(price_models) /\ ~NoBase(deal.model)) =>
        deal.found = deal.best

\* find_best returned the row of the model key of its fallback where
\* _best_bucket went on to the make tier
FallbackFoundModelRow ==
    /\ deal.done
    /\ NoBase(deal.model)
    /\ deal.found # <<>> /\ deal.found[1].tier = "model"
    /\ deal.best # <<>> /\ deal.best[1].tier = "make"

\* find_best returned the older of two rows of a key
OlderDuplicateFound ==
    /\ deal.done
    /\ deal.found # <<>> /\ deal.best # <<>>
    /\ KeyOf(deal.found[1]) = KeyOf(deal.best[1])
    /\ deal.found[1].trained_at < deal.best[1].trained_at

\* ------------------------------------------------------------------------
\* The scheduler's process over a change of year. CURRENT_YEAR is assigned
\* when train_price_models_3 and predict_price are imported, once in the
\* life of the process.
\* ------------------------------------------------------------------------

MaxYears == 2

\* midnight of 31 December
NewYear ==
    /\ process.calendar < CURRENT_YEAR + MaxYears
    /\ process' = [process EXCEPT !.calendar = @ + 1]

\* the process is started again: the modules are imported anew
Restart ==
    /\ process.loaded # process.calendar
    /\ process' = [process EXCEPT !.loaded = process.calendar]

\* listings of the years around the run
YearRows ==
    {CarListing(r_Kia, r_RioSport, y, 100, 10) :
        y \in (CURRENT_YEAR - 1)..(CURRENT_YEAR + MaxYears)}

YearInputs == UNION {[1..n -> YearRows] : n \in 1..2}

\* the 18:00 job: clean_rows of a bucket of the run
TrainJob(rows) ==
    /\ process' = [process EXCEPT
                      !.ran = "train", !.at = process.calendar,
                      !.used = process.loaded, !.rows = rows,
                      !.out = clean_rows_in(rows, process.loaded),
                      !.age = NoneInt]

\* a predict_price request: the age of _features
PredictJob(year) ==
    /\ process' = [process EXCEPT
                      !.ran = "predict", !.at = process.calendar,
                      !.used = process.loaded,
                      !.rows = <<CarListing(r_Kia, r_RioSport, year, 100, 10)>>,
                      !.out = <<>>,
                      !.age = Max(0, process.loaded - year)]

ProcessFrame ==
    /\ UNCHANGED <<price_models, request, result>>
    /\ UNCHANGED trainVars
    /\ UNCHANGED routeVars
    /\ UNCHANGED except_process

NextYears ==
    \/ NewYear /\ ProcessFrame
    \/ Restart /\ ProcessFrame
    \/ \E rows \in YearInputs : TrainJob(rows) /\ ProcessFrame
    \/ \E r \in YearRows : PredictJob(r.year) /\ ProcessFrame

SpecYears == Init /\ [][NextYears]_vars

\* ------------------------------------------------------------------------
\* Properties of the current year
\* ------------------------------------------------------------------------

\* C30: a run keeps every observation dated in the calendar year of the
\* run (valid years are those up to it), and a request's age is counted
\* from the calendar year of the request.
C30_CurrentYearIsCalendarYear ==
    /\ process.ran = "train" =>
          \A i \in DOMAIN process.rows :
              process.rows[i].year <= process.at =>
                  \E j \in DOMAIN process.out : process.out[j] = process.rows[i]
    /\ process.ran = "predict" =>
          process.age = Max(0, process.at - process.rows[1].year)

\* what holds of the code: the year of the import takes the place of the
\* calendar year
CurrentYearIsImportYear ==
    /\ process.ran = "train" =>
          \A i \in DOMAIN process.rows :
              process.rows[i].year <= process.used <=>
                  \E j \in DOMAIN process.out : process.out[j] = process.rows[i]
    /\ process.ran = "predict" =>
          process.age = Max(0, process.used - process.rows[1].year)

\* a run after the change of year dropped a listing of the new year
NewYearListingDropped ==
    /\ process.ran = "train"
    /\ process.at > process.used
    /\ \E i \in DOMAIN process.rows :
          /\ process.rows[i].year = process.at
          /\ \A j \in DOMAIN process.out : process.out[j] # process.rows[i]

\* a request after the change of year counted the age from the old year
StaleAge ==
    /\ process.ran = "predict"
    /\ process.at > process.used
    /\ process.age # Max(0, process.at - process.rows[1].year)

====
